---- MODULE Spec2Model ----
(***************************************************************************)
(* Expression graph of ibis/expr/base.py: table nodes are objects on a     *)
(* heap (their identity is their index), value expressions are structural  *)
(* records that name the table objects they reference.                     *)
(***************************************************************************)
EXTENDS Integers, Sequences, FiniteSets, TLC

\* How many nodes the construction API may add on top of the base tables.
MaxNew == 3

VARIABLES heap, last, asked

vars == <<heap, last, asked>>

----------------------------------------------------------------------------
\* Value expressions (ValueExpr wrapping a ValueNode).  cls is the wrapper
\* class, nm the wrapper's _name ("" is None), name/t the TableColumn's
\* arguments, v a Literal's value, args the operands of the other nodes.

NoName == ""

Col(n, t, ty) ==
    [k |-> "TableColumn", name |-> n, t |-> t, v |-> 0, args |-> <<>>,
     nm |-> n, cls |-> ty]

Lit(v) ==
    [k |-> "Literal", name |-> NoName, t |-> 0, v |-> v, args |-> <<>>,
     nm |-> NoName, cls |-> "int8"]

Op(kind, operands, ty) ==
    [k |-> kind, name |-> NoName, t |-> 0, v |-> 0, args |-> operands,
     nm |-> NoName, cls |-> ty]

\* An exception raised while an expression was being rewritten.
Raised(exc) ==
    [k |-> "Raised", name |-> exc, t |-> 0, v |-> 0, args |-> <<>>,
     nm |-> NoName, cls |-> NoName]

----------------------------------------------------------------------------
\* Table nodes.

Node(kind, table, right, exprs, schema) ==
    [k |-> kind, table |-> table, right |-> right, exprs |-> exprs,
     by |-> <<>>, having |-> <<>>, schema |-> schema]

JoinKinds == {"InnerJoin", "LeftSemiJoin"}

SchemaKinds ==
    {"UnboundTable", "SelfReference", "FilterWithSchema", "Projection",
     "Aggregation", "MaterializedJoin", "SortBy"}

BlockingKinds == {"UnboundTable", "SelfReference", "Projection", "Aggregation"}

_is_materialized(h, id) == h[id].k \in SchemaKinds

Names(schema) == [i \in DOMAIN schema |-> schema[i][1]]

NameSet(schema) == {schema[i][1] : i \in DOMAIN schema}

SchemaOk(schema) == Cardinality(NameSet(schema)) = Len(schema)

----------------------------------------------------------------------------
\* Root tables.  A result is [err, roots]: err is "" or the exception raised.

Roots(seq) == [err |-> "", roots |-> seq]

RootErr(exc) == [err |-> exc, roots |-> <<>>]

RECURSIVE SortedSeq(_)
SortedSeq(S) ==
    IF S = {} THEN <<>>
    ELSE LET m == CHOOSE x \in S : \A y \in S : x <= y
         IN <<m>> \o SortedSeq(S \ {m})

SeqSet(seq) == {seq[i] : i \in DOMAIN seq}

\* util.unique_by_key(all_roots, id): one entry per object.  The order of a
\* dict's values is not specified; no caller modelled here reads it.
_distinct_roots(ra, rb) ==
    IF ra.err # "" THEN ra
    ELSE IF rb.err # "" THEN rb
    ELSE Roots(SortedSeq(SeqSet(ra.roots) \cup SeqSet(rb.roots)))

\* MaterializedJoin.root_tables calls self.join._root_tables(); self.join is a
\* Join node, and only expressions have _root_tables.
MaterializedJoinRoots(h, id) == RootErr("AttributeError")

SelfReferenceRoots_mutant(h, id) == Roots(<<h[id].table>>)

HasSchemaRoots_mutant(h, id) ==
    IF h[id].k = "Aggregation" THEN Roots(<<h[id].table>>) ELSE Roots(<<id>>)

\* HasSchema.root_tables: a node with a schema of its own is its own root.
HasSchemaRoots(h, id) == Roots(<<id>>)

SelfReferenceRoots(h, id) == Roots(<<id>>)

RECURSIVE root_tables(_, _)
root_tables(h, id) ==
    LET n == h[id] IN
    CASE n.k \in {"UnboundTable", "Aggregation", "SortBy"} ->
            HasSchemaRoots(h, id)
      [] n.k = "SelfReference" -> SelfReferenceRoots(h, id)
      [] n.k \in {"Filter", "FilterWithSchema", "Projection"} ->
            root_tables(h, n.table)
      [] n.k \in JoinKinds ->
            _distinct_roots(root_tables(h, n.table), root_tables(h, n.right))
      [] n.k = "MaterializedJoin" -> MaterializedJoinRoots(h, id)

RECURSIVE expr_roots(_, _)
expr_roots(h, e) ==
    CASE e.k = "Literal" -> Roots(<<>>)
      [] e.k = "TableColumn" -> root_tables(h, e.t)
      [] e.k = "TableExpr" -> root_tables(h, e.t)
      [] e.k = "Sum" -> expr_roots(h, e.args[1])
      [] OTHER -> _distinct_roots(expr_roots(h, e.args[1]),
                                  expr_roots(h, e.args[2]))

----------------------------------------------------------------------------
\* Wrapper classes: cls is the type name, shape tells Scalar from Array.

ScalarKinds == {"Literal", "Sum"}

RECURSIVE IsScalar(_)
IsScalar(e) ==
    CASE e.k \in ScalarKinds -> TRUE
      [] e.k \in {"TableColumn", "TableExpr", "Raised"} -> FALSE
      [] OTHER -> \A i \in DOMAIN e.args : IsScalar(e.args[i])

\* ValueExpr.get_name: the explicit name, else the node's resolve_name;
\* NoName stands for the NotImplementedError of ValueNode.resolve_name.
RECURSIVE get_name(_)
get_name(e) ==
    IF e.nm # NoName THEN e.nm
    ELSE CASE e.k = "TableColumn" -> e.name
           [] e.k = "Sum" -> get_name(e.args[1])
           [] OTHER -> NoName

----------------------------------------------------------------------------
\* ExprValidator.  validate answers "True", "False" or the exception that
\* computing the expression's roots raised.

validate_mutant(h, roots, e) ==
    LET r == expr_roots(h, e) IN
    IF r.err # "" THEN r.err
    ELSE IF \A i \in DOMAIN r.roots :
               \E j \in DOMAIN roots :
                   /\ h[roots[j]].k = h[r.roots[i]].k
                   /\ h[roots[j]].schema = h[r.roots[i]].schema
         THEN "True" ELSE "False"

validate(h, roots, e) ==
    LET r == expr_roots(h, e) IN
    IF r.err # "" THEN r.err
    ELSE IF \A i \in DOMAIN r.roots : r.roots[i] \in SeqSet(roots)
         THEN "True" ELSE "False"

assert_valid_mutant(h, roots, e) ==
    LET v == validate(h, roots, e) IN
    IF v \in {"True", "False"} THEN "ok" ELSE v

assert_valid(h, roots, e) ==
    LET v == validate(h, roots, e) IN
    CASE v = "True" -> "ok"
      [] v = "False" -> "RelationError"
      [] OTHER -> v

\* The outcome of the first element of a sequence of outcomes that is not ok.
FirstFailure(outs) ==
    LET bad == {i \in DOMAIN outs : outs[i] # "ok"} IN
    IF bad = {} THEN "ok"
    ELSE outs[CHOOSE i \in bad : \A j \in bad : i <= j]

validate_all(h, roots, exprs) ==
    FirstFailure([i \in DOMAIN exprs |-> assert_valid(h, roots, exprs[i])])

_assert_valid(h, t, exprs) ==
    LET r == root_tables(h, t) IN
    IF r.err # "" THEN r.err ELSE validate_all(h, r.roots, exprs)

----------------------------------------------------------------------------
\* ExprSimplifier (substitute_parents).

\* Nodes with a .table attribute below which _base_table keeps looking.
RECURSIVE _base_table(_, _)
_base_table(h, id) ==
    IF h[id].k \in BlockingKinds THEN id
    ELSE IF h[id].k \in {"Filter", "FilterWithSchema", "SortBy"}
         THEN _base_table(h, h[id].table)
         ELSE 0   \* Join, MaterializedJoin: no attribute 'table'

\* lift of a table expression.  0 stands for the join that lift rebuilds from
\* lifted operands: a column can only be taken from a table with a schema, and
\* below such a table lift never meets a Join.
RECURSIVE lift(_, _)
lift(h, id) ==
    CASE h[id].k \in {"Filter", "FilterWithSchema"} -> lift(h, h[id].table)
      [] h[id].k \in JoinKinds -> 0
      [] OTHER -> id

IsRaised(e) == e.k = "Raised"

AnyRaised(es) == \E i \in DOMAIN es : IsRaised(es[i])

FirstRaised(es) == es[CHOOSE i \in DOMAIN es :
                         /\ IsRaised(es[i])
                         /\ \A j \in 1..(i - 1) : ~IsRaised(es[j])]

\* The selections of projection p from which column n can be lifted.
LiftSources(h, p, n) ==
    {i \in DOMAIN h[p].exprs :
        LET val == h[p].exprs[i] IN
        \/ val.k = "TableExpr" /\ n \in NameSet(h[val.t].schema)
        \/ val.k = "TableColumn" /\ n = get_name(val)}

RECURSIVE get_result(_, _)
get_result(h, e) ==
    CASE e.k = "Literal" -> e
      [] e.k = "TableColumn" ->
            LET root == _base_table(h, e.t) IN
            IF root = 0 THEN Raised("AttributeError")
            ELSE IF h[root].k = "Projection" /\ LiftSources(h, root, e.name) # {}
            THEN LET src == LiftSources(h, root, e.name)
                     i == CHOOSE j \in src : \A m \in src : m <= j
                 IN [e EXCEPT !.t = lift(h, h[root].exprs[i].t)]
            ELSE [e EXCEPT !.t = lift(h, e.t)]
      [] OTHER ->
            LET lifted == [i \in DOMAIN e.args |-> get_result(h, e.args[i])] IN
            IF AnyRaised(lifted) THEN FirstRaised(lifted)
            ELSE [e EXCEPT !.args = lifted]

substitute_parents(h, e) == get_result(h, e)

SubstituteAll(h, es) == [i \in DOMAIN es |-> substitute_parents(h, es[i])]

----------------------------------------------------------------------------
\* Constructors.  Each returns the heap after the call, the new object (0 when
\* the constructor raised), the outcome and the constructor calls made.

Call(ctor, table, right, exprs, out) ==
    [ctor |-> ctor, table |-> table, right |-> right, exprs |-> exprs,
     out |-> out]

Built(h, node, call) ==
    [h |-> Append(h, node), id |-> Len(h) + 1, out |-> "ok", log |-> <<call>>]

Failed(h, out, log) == [h |-> h, id |-> 0, out |-> out, log |-> log]

SchemaOf(h, t) == IF _is_materialized(h, t) THEN h[t].schema ELSE <<>>

\* Filter.__init__ reached through _filter, which picks FilterWithSchema for a
\* table that has a schema.
_filter(h, t, preds) ==
    LET klass == IF _is_materialized(h, t) THEN "FilterWithSchema" ELSE "Filter"
        out == _assert_valid(h, t, preds)
        call == Call("Filter", t, 0, preds, out)
    IN IF out # "ok" THEN Failed(h, out, <<call>>)
       ELSE Built(h, Node(klass, t, 0, preds, SchemaOf(h, t)), call)

\* Projection.__init__: each expression is validated and then named, in order;
\* the uniqueness of the names is checked after the loop.
ProjectionItem(h, roots, e) ==
    LET v == assert_valid(h, roots, e) IN
    IF v # "ok" THEN v
    ELSE IF e.k = "TableExpr"
         THEN IF _is_materialized(h, e.t) THEN "ok" ELSE "Exception"
         ELSE IF get_name(e) = NoName THEN "ValueError" ELSE "ok"

ItemSchema(h, e) ==
    IF e.k = "TableExpr" THEN h[e.t].schema ELSE <<<<get_name(e), e.cls>>>>

RECURSIVE Flatten(_)
Flatten(seqs) ==
    IF seqs = <<>> THEN <<>> ELSE Head(seqs) \o Flatten(Tail(seqs))

Projection(h, t, exprs) ==
    LET r == root_tables(h, t)
        out1 == IF r.err # "" THEN r.err
                ELSE FirstFailure([i \in DOMAIN exprs |->
                                      ProjectionItem(h, r.roots, exprs[i])])
        schema == Flatten([i \in DOMAIN exprs |-> ItemSchema(h, exprs[i])])
        out == IF out1 # "ok" THEN out1
               ELSE IF ~SchemaOk(schema) THEN "IntegrityError" ELSE "ok"
        call == Call("Projection", t, 0, exprs, out)
    IN IF out # "ok" THEN Failed(h, out, <<call>>)
       ELSE Built(h, Node("Projection", t, 0, exprs, schema), call)

\* ScalarExpr.is_reduction.
RECURSIVE has_reduction(_)
has_reduction(e) ==
    \/ e.k = "Sum"
    \/ /\ e.k \notin {"Literal", "TableColumn"}
       /\ \E i \in DOMAIN e.args :
             IsScalar(e.args[i]) /\ has_reduction(e.args[i])

\* Aggregation.__init__ with by = None and having = None.
Aggregation(h, t, agg_exprs) ==
    LET bad == \E i \in DOMAIN agg_exprs :
                  ~IsScalar(agg_exprs[i]) \/ ~has_reduction(agg_exprs[i])
        schema == [i \in DOMAIN agg_exprs |->
                      <<get_name(agg_exprs[i]), agg_exprs[i].cls>>]
        out == IF bad THEN "TypeError"
               ELSE LET v == _assert_valid(h, t, agg_exprs) IN
                    IF v # "ok" THEN v
                    ELSE IF NoName \in NameSet(schema)
                         THEN "NotImplementedError"
                    ELSE IF ~SchemaOk(schema) THEN "IntegrityError" ELSE "ok"
        call == Call("Aggregation", t, 0, agg_exprs, out)
    IN IF out # "ok" THEN Failed(h, out, <<call>>)
       ELSE Built(h, Node("Aggregation", t, 0, agg_exprs, schema), call)

\* Join.__init__: the predicates are rewritten by substitute_parents and then
\* validated against the roots of both sides.  No schema is computed here.
Join(h, kind, left, right, join_predicates) ==
    LET preds == SubstituteAll(h, join_predicates)
        lr == root_tables(h, left)
        rr == root_tables(h, right)
        out == IF AnyRaised(preds) THEN FirstRaised(preds).name
               ELSE IF lr.err # "" THEN lr.err
               ELSE IF rr.err # "" THEN rr.err
               ELSE validate_all(h, lr.roots \o rr.roots, preds)
        call == Call(kind, left, right,
                     IF AnyRaised(preds) THEN join_predicates ELSE preds, out)
    IN IF out # "ok" THEN Failed(h, out, <<call>>)
       ELSE Built(h, Node(kind, left, right, preds, <<>>), call)

\* SelfReference.__init__ needs the schema and the name of the wrapped table.
SelfReference(h, t) ==
    LET out == IF _is_materialized(h, t) THEN "ok" ELSE "Exception"
        call == Call("SelfReference", t, 0, <<>>, out)
    IN IF out # "ok" THEN Failed(h, out, <<call>>)
       ELSE Built(h, Node("SelfReference", t, 0, <<>>, h[t].schema), call)

\* SortKey.__init__: the key must be an array expression.  v is 1 for an
\* ascending key and 0 for a descending one.
SortKey(expr, ascending) ==
    IF expr.k = "TableExpr" \/ IsScalar(expr) THEN Raised("ExpressionError")
    ELSE [Op("SortKey", <<expr>>, NoName) EXCEPT !.v = IF ascending THEN 1 ELSE 0]

\* _to_sort_key for a key that is a SortKey or an expression.
_to_sort_key(h, t, key) == IF key.k = "SortKey" THEN key ELSE SortKey(key, TRUE)

\* SortBy.__init__: the keys are converted and the schema of the table is
\* taken; nothing else is examined.
SortBy(h, t, sort_keys) ==
    LET keys == [i \in DOMAIN sort_keys |-> _to_sort_key(h, t, sort_keys[i])]
        out == IF AnyRaised(keys) THEN FirstRaised(keys).name
               ELSE IF ~_is_materialized(h, t) THEN "Exception" ELSE "ok"
        call == Call("SortBy", t, 0, sort_keys, out)
    IN IF out # "ok" THEN Failed(h, out, <<call>>)
       ELSE Built(h, Node("SortBy", t, 0, keys, h[t].schema), call)

----------------------------------------------------------------------------
\* Join._get_schema and materialization.  A result is [err, schema].

RetainingKinds == {"InnerJoin"}

Overlap(sleft, sright) == NameSet(sleft) \cap NameSet(sright)

OverlapRaises_mutant(sleft, sright) == FALSE

OverlapRaises(sleft, sright) == Overlap(sleft, sright) # {}

RECURSIVE _get_schema(_, _)
\* The schema of one side: its own when it is materialized, else that of
\* MaterializedJoin(side), else the side has no materialize method.
SideSchema(h, t) ==
    IF _is_materialized(h, t) THEN [err |-> "", schema |-> h[t].schema]
    ELSE IF h[t].k \in JoinKinds THEN _get_schema(h, t)
    ELSE [err |-> "AttributeError", schema |-> <<>>]

_get_schema(h, j) ==
    IF h[j].k \in RetainingKinds
    THEN LET l == SideSchema(h, h[j].table)
             r == SideSchema(h, h[j].right)
         IN IF l.err # "" THEN l
            ELSE IF r.err # "" THEN r
            ELSE IF OverlapRaises(l.schema, r.schema)
                 THEN [err |-> "RelationError", schema |-> <<>>]
                 ELSE [err |-> "", schema |-> l.schema \o r.schema]
    ELSE \* LeftSemiJoin: self.left.schema()
         IF _is_materialized(h, h[j].table)
         THEN [err |-> "", schema |-> h[h[j].table].schema]
         ELSE [err |-> "Exception", schema |-> <<>>]

\* MaterializedJoin.__init__.
MaterializedJoin(h, j) ==
    LET s == _get_schema(h, j)
        out == IF s.err # "" THEN s.err ELSE "ok"
        call == Call("MaterializedJoin", j, 0, <<>>, out)
    IN IF out # "ok" THEN Failed(h, out, <<call>>)
       ELSE Built(h, Node("MaterializedJoin", j, 0, <<>>, s.schema), call)

\* TableExpr.materialize.
materialize(h, t) ==
    IF _is_materialized(h, t)
    THEN [h |-> h, id |-> t, out |-> "ok", log |-> <<>>]
    ELSE IF h[t].k \in JoinKinds THEN MaterializedJoin(h, t)
    ELSE Failed(h, "AttributeError", <<>>)

----------------------------------------------------------------------------
\* The construction API of TableExpr.

\* An expression object is never one of the node objects root_tables returns.
ExprObject(t) == <<"TableExpr", t>>

NodeObject(n) == <<"Node", n>>

\* "expr in roots" of apply_filter: expr is the TableExpr, roots are nodes.
ExprInRoots(t, roots) ==
    \E i \in DOMAIN roots : ExprObject(t) = NodeObject(roots[i])

\* Aggregation.substitute_table / Projection.substitute_table.
substitute_table(h, op, filtered) ==
    IF h[op].k = "Projection" THEN Projection(h, filtered, h[op].exprs)
    ELSE Aggregation(h, filtered, h[op].exprs)

RECURSIVE filter(_, _, _)
apply_filter(h, t, predicates) ==
    IF h[t].k \in {"Projection", "Aggregation"}
    THEN LET rs == [i \in DOMAIN predicates |-> expr_roots(h, predicates[i])]
             errs == [i \in DOMAIN rs |-> IF rs[i].err = "" THEN "ok" ELSE rs[i].err]
             can_pushdown == \A i \in DOMAIN rs : ~ExprInRoots(t, rs[i].roots)
         IN IF FirstFailure(errs) # "ok" THEN Failed(h, FirstFailure(errs), <<>>)
            ELSE IF can_pushdown
            THEN LET filtered == filter(h, h[t].table, predicates) IN
                 IF filtered.out # "ok" THEN filtered
                 ELSE LET res == substitute_table(filtered.h, t, filtered.id)
                      IN [res EXCEPT !.log = filtered.log \o res.log]
            ELSE _filter(h, t, predicates)
    ELSE _filter(h, t, predicates)

FilterFuse_mutant(h, t, clean_preds) ==
    _filter(h, h[t].table, clean_preds \o h[t].exprs)

FilterFuse_inplace(h, t, clean_preds) ==
    LET r == _filter(h, h[t].table, h[t].exprs \o clean_preds) IN
    IF r.out # "ok" THEN r
    ELSE [r EXCEPT !.h = [r.h EXCEPT ![t].exprs = h[t].exprs \o clean_preds]]

\* The fusion step of TableExpr.filter on top of a Filter.
FilterFuse(h, t, clean_preds) ==
    _filter(h, h[t].table, h[t].exprs \o clean_preds)

filter(h, t, predicates) ==
    LET clean_preds == SubstituteAll(h, predicates) IN
    IF AnyRaised(clean_preds)
    THEN Failed(h, FirstRaised(clean_preds).name, <<>>)
    ELSE IF h[t].k \in {"Filter", "FilterWithSchema"}
         THEN FilterFuse(h, t, clean_preds)
         ELSE apply_filter(h, t, clean_preds)

\* The selections _maybe_fuse_projection keeps for the fused projection: a
\* table expression that is the projected table, or shares the single root, is
\* skipped.  "Skip", "Keep", "False" (not valid: no fusion) or an exception.
FuseItem(h, t, roots, val) ==
    IF val.k = "TableExpr" /\ val.t = t THEN "Skip"
    ELSE LET vr == IF val.k = "TableExpr" THEN root_tables(h, val.t)
                   ELSE Roots(<<>>)
         IN IF val.k = "TableExpr" /\ Len(roots) = 1 /\ vr.err # "" THEN vr.err
            ELSE IF /\ val.k = "TableExpr" /\ Len(roots) = 1
                    /\ vr.roots[1] = roots[1]
                 THEN "Skip"
            ELSE LET v == validate(h, roots, val) IN
                 IF v = "True" THEN "Keep" ELSE v

Select(seq, keep) ==
    LET F[i \in 0..Len(seq)] ==
          IF i = 0 THEN <<>>
          ELSE IF keep[i] THEN Append(F[i - 1], seq[i]) ELSE F[i - 1]
    IN F[Len(seq)]

FusedSelections(h, root, fused_exprs) == h[root].exprs \o fused_exprs

_maybe_fuse_projection(h, t, clean_exprs) ==
    IF h[t].k = "Projection"
    THEN LET r == root_tables(h, t) IN
         IF r.err # "" THEN Failed(h, r.err, <<>>)
         ELSE LET items == [i \in DOMAIN clean_exprs |->
                               FuseItem(h, t, r.roots, clean_exprs[i])]
                  exc == {i \in DOMAIN items :
                             items[i] \notin {"Skip", "Keep", "False"}}
                  can_fuse == \A i \in DOMAIN items : items[i] # "False"
                  fused_exprs == Select(clean_exprs,
                                        [i \in DOMAIN items |-> items[i] = "Keep"])
              IN IF exc # {}
                 THEN Failed(h, items[CHOOSE i \in exc : \A j \in exc : i <= j], <<>>)
                 ELSE IF can_fuse
                 THEN Projection(h, h[t].table, FusedSelections(h, t, fused_exprs))
                 ELSE Projection(h, t, clean_exprs)
    ELSE LET r == root_tables(h, t) IN
         IF r.err # "" THEN Failed(h, r.err, <<>>)
         ELSE Projection(h, t, clean_exprs)

projection(h, t, col_exprs) ==
    LET clean_exprs == SubstituteAll(h, col_exprs) IN
    IF AnyRaised(clean_exprs)
    THEN Failed(h, FirstRaised(clean_exprs).name, <<>>)
    ELSE _maybe_fuse_projection(h, t, clean_exprs)

view(h, t) == SelfReference(h, t)

aggregate(h, t, agg_exprs) == Aggregation(h, t, agg_exprs)

sort_by(h, t, what) == SortBy(h, t, what)

----------------------------------------------------------------------------
\* equals.  Expr.equals compares the wrapper classes and then the nodes;
\* Node.equals compares the node classes, the number of arguments and the
\* arguments pairwise, a list argument over zip(left, right).

Min(a, b) == IF a <= b THEN a ELSE b

RECURSIVE NodeEquals(_, _, _)
RECURSIVE ExprEquals(_, _, _)

\* is_equal(left, right) for two lists of value expressions.
ListEquals(h, left, right) ==
    \A i \in 1..Min(Len(left), Len(right)) : ExprEquals(h, left[i], right[i])

\* Schema.equals.
SchemaEquals(sa, sb) ==
    /\ Names(sa) = Names(sb)
    /\ [i \in DOMAIN sa |-> sa[i][2]] = [i \in DOMAIN sb |-> sb[i][2]]

\* Literal.equals: both values are Python ints here.
LiteralEquals(a, b) == b.k = "Literal" /\ a.v = b.v

ExprEquals(h, a, b) ==
    /\ a.cls = b.cls
    /\ IsScalar(a) = IsScalar(b)
    /\ IF a.k = "Literal" THEN LiteralEquals(a, b)
       ELSE /\ a.k = b.k
            /\ Len(a.args) = Len(b.args)
            /\ IF a.k = "TableColumn"
               THEN a.name = b.name /\ NodeEquals(h, a.t, b.t)
               ELSE \A i \in DOMAIN a.args : ExprEquals(h, a.args[i], b.args[i])

\* Node.equals of two table nodes (every table class inherits it first).
NodeEquals(h, x, y) ==
    /\ h[x].k = h[y].k
    /\ CASE h[x].k = "UnboundTable" -> SchemaEquals(h[x].schema, h[y].schema)
         [] h[x].k \in {"SelfReference", "MaterializedJoin"} ->
               NodeEquals(h, h[x].table, h[y].table)
         [] h[x].k \in {"Filter", "FilterWithSchema", "Projection"} ->
               /\ NodeEquals(h, h[x].table, h[y].table)
               /\ ListEquals(h, h[x].exprs, h[y].exprs)
         [] h[x].k = "Aggregation" ->
               /\ NodeEquals(h, h[x].table, h[y].table)
               /\ ListEquals(h, h[x].exprs, h[y].exprs)
               /\ ListEquals(h, h[x].by, h[y].by)
               /\ ListEquals(h, h[x].having, h[y].having)
         [] h[x].k \in JoinKinds ->
               /\ NodeEquals(h, h[x].table, h[y].table)
               /\ NodeEquals(h, h[x].right, h[y].right)
               /\ ListEquals(h, h[x].exprs, h[y].exprs)

equals_mutant(h, x, y) == x = y

\* Expr.equals of two table expressions: both wrappers are TableExpr.
equals(h, x, y) == NodeEquals(h, x, y)

\* The arguments a node was constructed with, written out in full.
RECURSIVE TableArgs(_, _)
RECURSIVE ExprArgs(_, _)

ExprArgs(h, e) ==
    CASE e.k = "Literal" -> <<e.k, e.v>>
      [] e.k = "TableColumn" -> <<e.k, e.name, TableArgs(h, e.t)>>
      [] OTHER -> <<e.k, [i \in DOMAIN e.args |-> ExprArgs(h, e.args[i])]>>

ListArgs(h, es) == [i \in DOMAIN es |-> ExprArgs(h, es[i])]

TableArgs(h, x) ==
    CASE h[x].k = "UnboundTable" -> <<h[x].k, <<h[x].schema>> >>
      [] h[x].k \in {"SelfReference", "MaterializedJoin"} ->
            <<h[x].k, <<TableArgs(h, h[x].table)>> >>
      [] h[x].k \in {"Filter", "FilterWithSchema", "Projection"} ->
            <<h[x].k, <<TableArgs(h, h[x].table), ListArgs(h, h[x].exprs)>> >>
      [] h[x].k = "Aggregation" ->
            <<h[x].k, <<TableArgs(h, h[x].table), ListArgs(h, h[x].exprs),
                        ListArgs(h, h[x].by), ListArgs(h, h[x].having)>> >>
      [] h[x].k \in JoinKinds ->
            <<h[x].k, <<TableArgs(h, h[x].table), TableArgs(h, h[x].right),
                        ListArgs(h, h[x].exprs)>> >>

----------------------------------------------------------------------------
\* Python integers.  The promotion rules compute with values beyond 64 bits,
\* so an integer is a sign and a magnitude of NLimbs digits to the base Base
\* (least significant first); the digits hold 2^127 and more.

Base == 4096

NLimbs == 11

Limbs == 1..NLimbs

RECURSIVE MagFrom(_, _)
MagFrom(n, i) ==
    IF i > NLimbs THEN <<>> ELSE <<n % Base>> \o MagFrom(n \div Base, i + 1)

ZeroMag == [i \in Limbs |-> 0]

CmpMag(a, b) ==
    LET d == {i \in Limbs : a[i] # b[i]} IN
    IF d = {} THEN 0
    ELSE LET m == CHOOSE i \in d : \A j \in d : j <= i
         IN IF a[m] < b[m] THEN -1 ELSE 1

AddMag(a, b) ==
    LET carry[i \in 0..NLimbs] ==
          IF i = 0 THEN 0 ELSE (a[i] + b[i] + carry[i - 1]) \div Base
    IN [i \in Limbs |-> (a[i] + b[i] + carry[i - 1]) % Base]

\* a - b for a >= b.
SubMag(a, b) ==
    LET borrow[i \in 0..NLimbs] ==
          IF i = 0 THEN 0
          ELSE IF a[i] - b[i] - borrow[i - 1] < 0 THEN 1 ELSE 0
    IN [i \in Limbs |-> (a[i] - b[i] - borrow[i - 1] + Base) % Base]

MulMag(a, b) ==
    LET col(k) ==
          LET part[i \in 0..k] ==
                IF i = 0 THEN 0 ELSE part[i - 1] + a[i] * b[k + 1 - i]
          IN part[k]
        carry[k \in 0..NLimbs] ==
          IF k = 0 THEN 0 ELSE (col(k) + carry[k - 1]) \div Base
    IN [k \in Limbs |-> (col(k) + carry[k - 1]) % Base]

Norm(neg, mag) == [neg |-> neg /\ mag # ZeroMag, mag |-> mag]

\* The integer n of the model as a Python integer.
BigOf(n) == Norm(n < 0, MagFrom(IF n < 0 THEN 0 - n ELSE n, 1))

BigNeg(x) == Norm(~x.neg, x.mag)

\* operator.add, operator.sub, operator.mul
BigAdd(x, y) ==
    IF x.neg = y.neg THEN Norm(x.neg, AddMag(x.mag, y.mag))
    ELSE IF CmpMag(x.mag, y.mag) >= 0 THEN Norm(x.neg, SubMag(x.mag, y.mag))
    ELSE Norm(y.neg, SubMag(y.mag, x.mag))

BigSub(x, y) == BigAdd(x, BigNeg(y))

BigMul(x, y) == Norm(x.neg # y.neg, MulMag(x.mag, y.mag))

\* x <= y
BigLe(x, y) ==
    IF x.neg # y.neg THEN x.neg
    ELSE IF x.neg THEN CmpMag(x.mag, y.mag) >= 0
    ELSE CmpMag(x.mag, y.mag) <= 0

Between(lo, x, hi) == BigLe(lo, x) /\ BigLe(x, hi)

\* 2^31 and 2^63
TwoTo31 == BigMul(BigOf(65536), BigOf(32768))

TwoTo63 == BigMul(BigMul(BigOf(2097152), BigOf(2097152)), BigOf(2097152))

----------------------------------------------------------------------------
\* Types of arithmetic expressions.  An operand is a literal with its value
\* or a non-literal expression (a column) of a type; a result is a type name
\* or the name of the exception raised.

IntTypes == {"int8", "int16", "int32", "int64"}

FloatingTypes == {"float", "double"}

NumericTypes == IntTypes \cup FloatingTypes \cup {"boolean"}

_nbytes(t) ==
    CASE t = "int8" -> 1 [] t = "int16" -> 2 [] t = "int32" -> 4 [] t = "int64" -> 8

\* _int_bounds[t] as <<min, max>>.
_int_bounds(t) ==
    CASE t = "int8" -> <<BigOf(-128), BigOf(127)>>
      [] t = "int16" -> <<BigOf(-32768), BigOf(32767)>>
      [] t = "int32" -> <<BigNeg(TwoTo31), BigSub(TwoTo31, BigOf(1))>>
      [] t = "int64" -> <<BigNeg(TwoTo63), BigSub(TwoTo63, BigOf(1))>>

_int_literal_class_mutant(value, allow_overflow) ==
    IF Between(BigOf(-128), value, BigOf(127)) THEN "int8"
    ELSE IF Between(BigOf(-32768), value, BigOf(32767)) THEN "int16"
    ELSE IF Between(BigNeg(TwoTo31), value, BigSub(TwoTo31, BigOf(1))) THEN "int32"
    ELSE "int64"

_int_literal_class(value, allow_overflow) ==
    IF Between(BigOf(-128), value, BigOf(127)) THEN "int8"
    ELSE IF Between(BigOf(-32768), value, BigOf(32767)) THEN "int16"
    ELSE IF Between(BigNeg(TwoTo31), value, BigSub(TwoTo31, BigOf(1))) THEN "int32"
    ELSE IF /\ ~Between(BigNeg(TwoTo63), value, BigSub(TwoTo63, BigOf(1)))
            /\ ~allow_overflow
         THEN "OverflowError"
    ELSE "int64"

_largest_int(int_types) ==
    CHOOSE t \in int_types : \A u \in int_types : _nbytes(u) <= _nbytes(t)

_smallest_int_containing(values, allow_overflow) ==
    LET containing_types ==
          {_int_literal_class(values[i], allow_overflow) : i \in DOMAIN values}
    IN IF "OverflowError" \in containing_types THEN "OverflowError"
       ELSE _largest_int(containing_types)

RECURSIVE BigPow(_, _)
BigPow(x, n) == IF n = 0 THEN BigOf(1) ELSE BigMul(x, BigPow(x, n - 1))

\* A literal exponent of the model as a number of the model.
SmallOf(x) == IF x.neg THEN 0 - x.mag[1] ELSE x.mag[1]

\* operator.add, operator.sub, operator.mul, operator.pow on two integers.
operator(op, x, y) ==
    CASE op = "Add" -> BigAdd(x, y)
      [] op = "Subtract" -> BigSub(x, y)
      [] op = "Multiply" -> BigMul(x, y)
      [] op = "Power" -> BigPow(x, SmallOf(y))

_int_bounds_promotion_mutant(ltype, rtype, op) ==
    LET l == _int_bounds(ltype)
        r == _int_bounds(rtype)
    IN _smallest_int_containing(
           <<operator(op, l[1], r[1]), operator(op, l[2], r[2])>>, TRUE)

_int_bounds_promotion(ltype, rtype, op) ==
    LET l == _int_bounds(ltype)
        r == _int_bounds(rtype)
        values == <<operator(op, l[1], r[1]), operator(op, l[1], r[2]),
                    operator(op, l[2], r[1]), operator(op, l[2], r[2])>>
    IN _smallest_int_containing(values, TRUE)

\* The literal's value is the right operand of op whichever side it is on.
_int_one_literal_promotion(atype, lit_val, op) ==
    LET a == _int_bounds(atype)
        bound_type == _smallest_int_containing(
                          <<operator(op, a[1], lit_val),
                            operator(op, a[2], lit_val)>>, TRUE)
    IN _largest_int({bound_type, atype})

Operand(lit, type, value) == [lit |-> lit, type |-> type, value |-> value]

\* BinaryPromoter._get_int_type
_get_int_type(left, right, op) ==
    IF left.lit /\ right.lit
    THEN _smallest_int_containing(<<operator(op, left.value, right.value)>>, FALSE)
    ELSE IF left.lit
         THEN _int_one_literal_promotion(right.type, left.value, op)
    ELSE IF right.lit
         THEN _int_one_literal_promotion(left.type, right.value, op)
    ELSE _int_bounds_promotion(left.type, right.type, op)

\* BinaryPromoter._check_compatibility
_check_compatibility(left, right) ==
    IF "string" \in {left.type, right.type} /\ left.type # right.type
    THEN "TypeError" ELSE "ok"

\* BinaryPromoter.__init__ and _get_type
BinaryPromoter(left, right, op) ==
    IF _check_compatibility(left, right) # "ok" THEN "TypeError"
    ELSE IF {left.type, right.type} \cap FloatingTypes # {}
         THEN IF "double" \in {left.type, right.type} THEN "double" ELSE "float"
    ELSE IF {left.type, right.type} \subseteq IntTypes
         THEN _get_int_type(left, right, op)
    ELSE "NotImplementedError"

\* PowerPromoter.__init__ and _get_type
PowerPromoter(left, right) ==
    IF _check_compatibility(left, right) # "ok" THEN "TypeError"
    ELSE IF {left.type, right.type} \cap FloatingTypes # {}
         THEN IF "double" \in {left.type, right.type} THEN "double" ELSE "float"
    ELSE IF right.lit /\ right.value.neg THEN "double"
    ELSE IF {left.type, right.type} \subseteq IntTypes
         THEN _get_int_type(left, right, "Power")
    ELSE "NotImplementedError"

\* RealUnaryOp.output_type; _allow_boolean is False for Log, Log2 and Log10.
_allow_boolean(op) == op \notin {"Log", "Log2", "Log10"}

RealUnaryOp(op, arg) ==
    IF arg.type \notin NumericTypes THEN "TypeError"
    ELSE IF arg.type = "boolean" /\ ~_allow_boolean(op) THEN "TypeError"
    ELSE "double"

----------------------------------------------------------------------------
\* The state machine: the heap of table nodes built so far and the last call
\* of the construction API with its outcome.  An exception ends the run.

UnboundTable(schema) == Node("UnboundTable", 0, 0, <<>>, schema)

\* table(schema): two tables of one schema.
BaseTables ==
    << UnboundTable(<< <<"a", "int32">>, <<"b", "int32">> >>),
       UnboundTable(<< <<"a", "int32">>, <<"b", "int32">> >>) >>

\* table(schema): two tables of one schema and a third with other columns.
JoinTables == Append(BaseTables, UnboundTable(<< <<"c", "int32">> >>))

Record(op, t, right, exprs, res) ==
    [op |-> op, t |-> t, right |-> right, exprs |-> exprs,
     out |-> res.out, id |-> res.id, log |-> res.log]

Materialized(h) == {y \in DOMAIN h : _is_materialized(h, y)}

\* TableExpr.get_column(name) for a name of the table's schema.
get_column(h, x, i) == Col(h[x].schema[i][1], x, h[x].schema[i][2])

ColumnsOf(h, x) == {get_column(h, x, i) : i \in DOMAIN h[x].schema}

\* column > 0
Greater(c) == Op("Greater", <<c, Lit(0)>>, "boolean")

\* left column == right column
Equals(c, d) == Op("Equals", <<c, d>>, "boolean")

Sum(c) == Op("Sum", <<c>>, "int64")

\* The tables whose columns a call on table t is given: t itself, its input,
\* the tables built on t, and one table unrelated to t.
RECURSIVE Origin(_, _)
Origin(h, t) == IF h[t].table = 0 THEN t ELSE Origin(h, h[t].table)

Foreign(h, t) == CHOOSE x \in 1..2 : x # Origin(h, t)

Related(h, t) ==
    {x \in Materialized(h) : x = t \/ x = h[t].table \/ h[x].table = t}

ColumnsFor(h, t) ==
    UNION {ColumnsOf(h, x) : x \in Related(h, t) \cup {Foreign(h, t)}}

PredicateLists(h, t) == {<<Greater(c)>> : c \in ColumnsFor(h, t)}

Selections(h, t) ==
    {<<c>> : c \in ColumnsFor(h, t)}
    \cup UNION {{<<c, d>> : c \in {get_column(h, x, 1)}, d \in ColumnsOf(h, x)} :
                   x \in Related(h, t)}
    \cup {<<Lit(0), get_column(h, x, 1)>> : x \in {Origin(h, t), Foreign(h, t)}}

MaxNodes == Len(BaseTables) + MaxNew

\* What the callers of filter asked for: for the Filter a chain of filter calls
\* on table base returned, the predicates as they were passed, in call order.
NotAsked == [base |-> 0, preds |-> <<>>]

AskedOf(op, t, exprs, res) ==
    IF op = "filter" /\ res.out = "ok"
          /\ heap[t].k \notin {"Projection", "Aggregation"}
    THEN IF heap[t].k \notin {"Filter", "FilterWithSchema"}
         THEN [base |-> t, preds |-> exprs]
         ELSE IF asked[t].base # 0
              THEN [base |-> asked[t].base, preds |-> asked[t].preds \o exprs]
              ELSE NotAsked
    ELSE NotAsked

\* One call of the API: it is made while the heap has room and no call raised.
Apply(op, t, right, exprs, res, bound) ==
    /\ last.out = "ok"
    /\ Len(heap) < bound
    /\ heap' = res.h
    /\ last' = Record(op, t, right, exprs, res)
    /\ asked' = [i \in DOMAIN res.h |->
                    IF i \in DOMAIN asked THEN asked[i]
                    ELSE IF i = res.id THEN AskedOf(op, t, exprs, res)
                    ELSE NotAsked]

Filter ==
    \E t \in DOMAIN heap : \E preds \in PredicateLists(heap, t) :
        Apply("filter", t, 0, preds, filter(heap, t, preds), MaxNodes)

Project ==
    \E t \in DOMAIN heap : \E sels \in Selections(heap, t) :
        Apply("projection", t, 0, sels, projection(heap, t, sels), MaxNodes)

View ==
    \E t \in DOMAIN heap :
        Apply("view", t, 0, <<>>, view(heap, t), MaxNodes)

Aggregate ==
    \E t \in DOMAIN heap : \E c \in ColumnsFor(heap, t) :
        Apply("aggregate", t, 0, <<Sum(c)>>,
              aggregate(heap, t, <<Sum(c)>>), MaxNodes)

\* left.inner_join(right, [left column == column]) and semi_join likewise.
JoinWith(bound) ==
    \E kind \in JoinKinds :
      \E l \in Materialized(heap) : \E r \in DOMAIN heap \ {l} :
        \E y \in (Materialized(heap) \cap {r}) \cup {Foreign(heap, l)} :
          LET preds == <<Equals(get_column(heap, l, 1), get_column(heap, y, 1))>>
          IN Apply(kind, l, r, preds, Join(heap, kind, l, r, preds), bound)

JoinCall == JoinWith(MaxNodes)

Started(tables) ==
    Record("table", 0, 0, <<>>,
           [h |-> tables, id |-> 0, out |-> "ok", log |-> <<>>])

Init ==
    /\ heap = BaseTables
    /\ last = Started(BaseTables)
    /\ asked = [i \in DOMAIN BaseTables |-> NotAsked]

Next ==
    \/ Filter
    \/ Project
    \/ View
    \/ Aggregate
    \/ JoinCall

Spec == Init /\ [][Next]_vars

----------------------------------------------------------------------------
\* Joins and their materialization.

MaxJoinNew == 3

MaxJoinNodes == Len(JoinTables) + MaxJoinNew

JoinView ==
    \E t \in DOMAIN heap :
        Apply("view", t, 0, <<>>, view(heap, t), MaxJoinNodes)

JoinBuild == JoinWith(MaxJoinNodes)

Materialize ==
    \E t \in DOMAIN heap :
        Apply("materialize", t, 0, <<>>, materialize(heap, t), MaxJoinNodes)

JoinInit ==
    /\ heap = JoinTables
    /\ last = Started(JoinTables)
    /\ asked = [i \in DOMAIN JoinTables |-> NotAsked]

JoinNext ==
    \/ JoinView
    \/ JoinBuild
    \/ Materialize

JoinSpec == JoinInit /\ [][JoinNext]_vars

----------------------------------------------------------------------------
\* Sorting and aggregating: sort keys and metrics of every shape.

MaxOrderNew == 2

MaxOrderNodes == Len(BaseTables) + MaxOrderNew

ArithmeticKinds == {"Add", "Subtract", "Multiply"}

ComparisonKinds == {"Equals", "Greater"}

LogicalKinds == {"And", "Or", "Xor"}

\* The operand of a value expression as the type promotion sees it.
OperandOf(e) == Operand(e.k = "Literal", e.cls, BigOf(e.v))

\* output_type of a binary operation: the promoted type of an arithmetic
\* operation, boolean for a comparison of numeric operands and for a logical
\* operation of boolean operands, else the exception raised.
BinaryType(kind, left, right) ==
    CASE kind \in ArithmeticKinds ->
            BinaryPromoter(OperandOf(left), OperandOf(right), kind)
      [] kind \in ComparisonKinds -> "boolean"
      [] kind \in LogicalKinds ->
            IF left.cls = "boolean" /\ right.cls = "boolean"
            THEN "boolean" ELSE "TypeError"

BinaryOp(kind, left, right) ==
    Op(kind, <<left, right>>, BinaryType(kind, left, right))

\* left + right
Add(left, right) == BinaryOp("Add", left, right)

\* desc(expr)
desc(expr) == SortKey(expr, FALSE)

\* ValueExpr.name: the same node in a wrapper that carries the name.
name(e, n) == [e EXCEPT !.nm = n]

\* The sort keys a call of sort_by on table t is given: a column of t, of a
\* related table or of an unrelated table, as it is or in desc, a sum of a
\* column of t, and a literal.
SortKeys(h, t) ==
    ColumnsFor(h, t)
    \cup {desc(c) : c \in ColumnsFor(h, t)}
    \cup {Sum(c) : c \in ColumnsOf(h, t)}
    \cup {Lit(0)}

\* The metrics a call of aggregate on table t is given.
Metrics(h, t) ==
    UNION {{c, Add(c, Lit(1)), Sum(c), Add(Sum(c), Lit(1)),
            name(Add(Sum(c), Lit(1)), "total"), Add(Sum(c), Sum(c)),
            Sum(Add(c, Lit(1)))} :
              c \in ColumnsFor(h, t)}
    \cup {Lit(0), Add(Lit(0), Lit(1)), name(Add(Lit(0), Lit(1)), "total")}

MetricLists(h, t) ==
    {<<m>> : m \in Metrics(h, t)}
    \cup {<<Sum(get_column(h, t, 1)), m>> :
             m \in {Lit(0), name(Add(Sum(get_column(h, t, 1)), Lit(1)), "total")}}

Sort ==
    /\ last.out = "ok" /\ Len(heap) < MaxOrderNodes
    /\ \E t \in DOMAIN heap : \E key \in SortKeys(heap, t) :
          Apply("sort_by", t, 0, <<key>>, sort_by(heap, t, <<key>>),
                MaxOrderNodes)

AggregateMetrics ==
    /\ last.out = "ok" /\ Len(heap) < MaxOrderNodes
    /\ \E t \in DOMAIN heap : \E metrics \in MetricLists(heap, t) :
          Apply("aggregate", t, 0, metrics, aggregate(heap, t, metrics),
                MaxOrderNodes)

OrderNext ==
    \/ Sort
    \/ AggregateMetrics

OrderSpec == Init /\ [][OrderNext]_vars

----------------------------------------------------------------------------
\* Building value expressions: literals, arithmetic, powers and the real
\* valued functions.  last is the expression built and its type; a run
\* builds one expression.

\* The integers literals are made of: around the bounds of every type.
LiteralValues ==
    {BigOf(v) : v \in {-129, -128, -1, 0, 1, 2, 127, 128, 32640, 32767, 32768}}
    \cup {BigNeg(TwoTo31), BigSub(BigNeg(TwoTo31), BigOf(1)),
          BigSub(TwoTo31, BigOf(1)), TwoTo31,
          BigNeg(TwoTo63), BigSub(BigNeg(TwoTo63), BigOf(1)),
          BigSub(TwoTo63, BigOf(1)), TwoTo63}

\* literal(value): Literal.output_type types the value.
literal(value) == Operand(TRUE, _int_literal_class(value, FALSE), value)

Literals ==
    {literal(v) : v \in {w \in LiteralValues :
                            _int_literal_class(w, FALSE) # "OverflowError"}}

ColumnTypes == IntTypes \cup FloatingTypes \cup {"boolean", "string"}

\* A column of a table: a non-literal operand.
ColumnOperand(type) == Operand(FALSE, type, BigOf(0))

Operands == Literals \cup {ColumnOperand(t) : t \in ColumnTypes}

\* The exponents of the model: small literals and floating columns.
Exponents ==
    {x \in Literals : Between(BigOf(-2), x.value, BigOf(2))}
    \cup {ColumnOperand(t) : t \in FloatingTypes}

Typed(op, left, right, out) ==
    [op |-> op, left |-> left, right |-> right, out |-> out]

MakeLiteral ==
    /\ last.op = "None"
    /\ \E v \in LiteralValues :
          last' = Typed("Literal", Operand(TRUE, "", v), Operand(TRUE, "", v),
                        _int_literal_class(v, FALSE))
    /\ UNCHANGED <<heap, asked>>

Arithmetic ==
    /\ last.op = "None"
    /\ \E op \in {"Add", "Subtract", "Multiply"} :
         \E left \in Operands : \E right \in Operands :
           last' = Typed(op, left, right, BinaryPromoter(left, right, op))
    /\ UNCHANGED <<heap, asked>>

Power ==
    /\ last.op = "None"
    /\ \E left \in Operands : \E right \in Exponents :
          last' = Typed("Power", left, right, PowerPromoter(left, right))
    /\ UNCHANGED <<heap, asked>>

RealUnary ==
    /\ last.op = "None"
    /\ \E op \in {"Exp", "Sqrt", "Log", "Log2", "Log10"} :
         \E arg \in Operands :
           last' = Typed(op, arg, arg, RealUnaryOp(op, arg))
    /\ UNCHANGED <<heap, asked>>

TypeInit ==
    /\ heap = <<>>
    /\ asked = <<>>
    /\ last = Typed("None", ColumnOperand("int8"), ColumnOperand("int8"), "")

TypeNext ==
    \/ MakeLiteral
    \/ Arithmetic
    \/ Power
    \/ RealUnary

TypeSpec == TypeInit /\ [][TypeNext]_vars

----------------------------------------------------------------------------
\* The SQL translator of value expressions (ibis.sql.exprs).  The output is
\* the sequence of its words and parentheses, which the code joins by single
\* spaces or writes next to each other.  last is the expression built so far
\* and its translation.

MaxOps == 3

\* The keys of _binary_infix_ops and their symbols.
_binary_infix_ops == ArithmeticKinds \cup ComparisonKinds \cup LogicalKinds

infix_sym(kind) ==
    CASE kind = "Add" -> "+"
      [] kind = "Subtract" -> "-"
      [] kind = "Multiply" -> "*"
      [] kind = "Equals" -> "="
      [] kind = "Greater" -> ">"
      [] kind = "And" -> "AND"
      [] kind = "Or" -> "OR"

_needs_parens(e) == e.k \in _binary_infix_ops \/ e.k = "Negate"

_parenthesize(what) == <<"(">> \o what \o <<")">>

_number_literal_format(e) == <<ToString(e.v)>>

\* _table_column in a context of one table: no alias and no subquery.
_table_column(e) == <<e.name>>

\* ExprTranslator.translate with _negate, _binary_infix_op and _xor.
RECURSIVE translate(_)
translate(e) ==
    CASE e.k = "Literal" -> _number_literal_format(e)
      [] e.k = "TableColumn" -> _table_column(e)
      [] e.k = "Negate" ->
            LET formatted_arg == translate(e.args[1]) IN
            IF e.cls = "boolean" THEN <<"NOT">> \o formatted_arg
            ELSE IF _needs_parens(e.args[1])
                 THEN <<"-">> \o _parenthesize(formatted_arg)
                 ELSE <<"-">> \o formatted_arg
      [] OTHER ->
            LET left == translate(e.args[1])
                right == translate(e.args[2])
                left_arg == IF _needs_parens(e.args[1])
                            THEN _parenthesize(left) ELSE left
                right_arg == IF _needs_parens(e.args[2])
                             THEN _parenthesize(right) ELSE right
            IN IF e.k = "Xor"
               THEN _parenthesize(left_arg \o <<"OR">> \o right_arg)
                    \o <<"AND", "NOT">>
                    \o _parenthesize(left_arg \o <<"AND">> \o right_arg)
               ELSE left_arg \o <<infix_sym(e.k)>> \o right_arg

\* Negate.output_type is the class of the operand.
Negate(arg) == Op("Negate", <<arg>>, arg.cls)

FormatTables ==
    <<UnboundTable(<< <<"a", "int32">>, <<"b", "int32">>, <<"c", "int32">>,
                      <<"flag", "boolean">> >>)>>

FormatLeaves == ColumnsOf(FormatTables, 1)

RECURSIVE OpCount(_)
OpCount(e) ==
    IF e.k \in {"Literal", "TableColumn"} THEN 0
    ELSE IF e.k = "Negate" THEN 1 + OpCount(e.args[1])
    ELSE 1 + OpCount(e.args[1]) + OpCount(e.args[2])

Translated(op, e) == [op |-> op, expr |-> e, out |-> translate(e)]

\* expr <op> other and other <op> expr, other a leaf or expr itself.
Infix ==
    \E kind \in _binary_infix_ops :
      \E other \in FormatLeaves \cup {last.expr} : \E flip \in BOOLEAN :
        LET e == IF flip THEN BinaryOp(kind, other, last.expr)
                 ELSE BinaryOp(kind, last.expr, other)
        IN /\ OpCount(last.expr) + OpCount(other) < MaxOps
           /\ e.cls \in NumericTypes
           /\ last' = Translated(kind, e)
           /\ UNCHANGED <<heap, asked>>

\* -expr
Negation ==
    /\ OpCount(last.expr) < MaxOps
    /\ last' = Translated("Negate", Negate(last.expr))
    /\ UNCHANGED <<heap, asked>>

FormatInit ==
    /\ heap = FormatTables
    /\ asked = <<>>
    /\ last \in {Translated("None", e) : e \in FormatLeaves}

FormatNext ==
    \/ Infix
    \/ Negation

FormatSpec == FormatInit /\ [][FormatNext]_vars

----------------------------------------------------------------------------
\* The translation of literals.  A Python value is its type (bool, int, long
\* or str) and its content; a str is the sequence of its characters, and so
\* is the translator's output.  last is the literal and its translation.

MaxStrLen == 4

\* The characters of the strings of the model: a letter, the single quote and
\* the backslash.
Chars == {"a", "'", "\\"}

IntValues == {0, 7, 42, 1000, -1, -42}

PyValue(type, b, n, str) == [type |-> type, bool |-> b, int |-> n, str |-> str]

NoValue == PyValue("None", FALSE, 0, <<>>)

\* Literal.output_type: bool is tested before int and long.
LiteralType(value) ==
    CASE value.type = "bool" -> "boolean"
      [] value.type \in {"int", "long"} ->
            _int_literal_class(BigOf(value.int), FALSE)
      [] value.type = "str" -> "string"

\* The decimal digits of a natural number.
RECURSIVE Digits(_)
Digits(n) ==
    IF n < 10 THEN <<ToString(n)>>
    ELSE Digits(n \div 10) \o <<ToString(n % 10)>>

\* repr of a Python 2 integer: the value of a long is followed by L.
repr(value) ==
    (IF value.int < 0 THEN <<"-">> \o Digits(0 - value.int)
     ELSE Digits(value.int))
    \o (IF value.type = "long" THEN <<"L">> ELSE <<>>)

_boolean_literal_format(value) ==
    IF value.bool THEN <<"T", "R", "U", "E">> ELSE <<"F", "A", "L", "S", "E">>

\* value.replace("'", "\\'")
RECURSIVE replace(_)
replace(str) ==
    IF str = <<>> THEN <<>>
    ELSE (IF Head(str) = "'" THEN <<"\\", "'">> ELSE <<Head(str)>>)
         \o replace(Tail(str))

_string_literal_format(value) == <<"'">> \o replace(value.str) \o <<"'">>

\* _literal: the formatter is chosen by the class of the expression.
_literal(value) ==
    CASE LiteralType(value) = "boolean" -> _boolean_literal_format(value)
      [] LiteralType(value) = "string" -> _string_literal_format(value)
      [] OTHER -> repr(value)

TranslatedLiteral(op, value) ==
    [op |-> op, value |-> value, out |-> _literal(value)]

BooleanLiteral ==
    /\ last.op = "None"
    /\ \E b \in BOOLEAN :
          last' = TranslatedLiteral("bool", PyValue("bool", b, 0, <<>>))
    /\ UNCHANGED <<heap, asked>>

IntegerLiteral ==
    /\ last.op = "None"
    /\ \E n \in IntValues : \E type \in {"int", "long"} :
          last' = TranslatedLiteral(type, PyValue(type, FALSE, n, <<>>))
    /\ UNCHANGED <<heap, asked>>

\* The literal of a string one character longer.
StringLiteral ==
    /\ last.op \in {"None", "str"}
    /\ Len(last.value.str) < MaxStrLen
    /\ \E c \in Chars \cup {""} :
          /\ c = "" => last.op = "None"
          /\ last' = TranslatedLiteral("str",
                        PyValue("str", FALSE, 0,
                                IF c = "" THEN <<>>
                                ELSE Append(last.value.str, c)))
    /\ UNCHANGED <<heap, asked>>

LiteralInit ==
    /\ heap = <<>>
    /\ asked = <<>>
    /\ last = [op |-> "None", value |-> NoValue, out |-> <<>>]

LiteralNext ==
    \/ BooleanLiteral
    \/ IntegerLiteral
    \/ StringLiteral

LiteralSpec == LiteralInit /\ [][LiteralNext]_vars

----------------------------------------------------------------------------
\* Schema.  A result is [err, schema]: the exception raised, or "" and the
\* schema as the sequence of its (name, type) pairs.  last is the call made
\* and its result.

MaxCols == 2

ColumnNames == {"a", "b", "c"}

\* The keys of _array_types.
_array_types == NumericTypes \cup {"string"}

\* The types of the model's schemas: two valid types and one that is none.
TypeNames == {"int32", "string", "decimal"}

\* Schema.__init__: the types are validated, then the names are counted.
Schema(names, types) ==
    IF \E i \in DOMAIN types : types[i] \notin _array_types
    THEN [err |-> "ValueError", schema |-> <<>>]
    ELSE IF Cardinality(SeqSet(names)) < Len(names)
    THEN [err |-> "IntegrityError", schema |-> <<>>]
    ELSE [err |-> "", schema |-> [i \in DOMAIN names |-> <<names[i], types[i]>>]]

Types(schema) == [i \in DOMAIN schema |-> schema[i][2]]

\* Schema.append
append(self, schema) ==
    LET names == Names(self) \o Names(schema)
        types == Types(self) \o Types(schema)
    IN Schema(names, types)

\* The lists of at most MaxCols names and as many types.
ColumnLists ==
    UNION {[1..n -> ColumnNames \X TypeNames] : n \in 0..MaxCols}

ValidSchemas ==
    {cols \in ColumnLists : Schema(Names(cols), Types(cols)).err = ""}

SchemaCall(op, left, right, out) ==
    [op |-> op, left |-> left, right |-> right, out |-> out]

NewSchema ==
    /\ last.op = "None"
    /\ \E cols \in ColumnLists :
          last' = SchemaCall("Schema", cols, <<>>,
                             Schema(Names(cols), Types(cols)))
    /\ UNCHANGED <<heap, asked>>

SchemaAppend ==
    /\ last.op = "None"
    /\ \E self \in ValidSchemas : \E other \in ValidSchemas :
          last' = SchemaCall("append", self, other, append(self, other))
    /\ UNCHANGED <<heap, asked>>

SchemaInit ==
    /\ heap = <<>>
    /\ asked = <<>>
    /\ last = SchemaCall("None", <<>>, <<>>, [err |-> "", schema |-> <<>>])

SchemaNext ==
    \/ NewSchema
    \/ SchemaAppend

SchemaSpec == SchemaInit /\ [][SchemaNext]_vars

----------------------------------------------------------------------------
\* One traversal of ExprSimplifier over an expression graph whose nodes are
\* objects: heap[i] is the node with identity i, and two parents that hold the
\* same i share the node.

MaxGraphNew == 3

GraphNode(k, table, args) == [k |-> k, table |-> table, args |-> args]

\* t = table([('a', 'int32')]); f = t.filter(..); c = f.a;
\* p = f.projection([c]); g = p.filter(..)
GraphTables ==
    << GraphNode("UnboundTable", 0, <<>>),
       GraphNode("Filter", 1, <<>>),
       GraphNode("TableColumn", 2, <<>>),
       GraphNode("Projection", 2, <<3>>),
       GraphNode("Filter", 4, <<>>) >>

MaxGraphNodes == Len(GraphTables) + MaxGraphNew

TableKinds == {"UnboundTable", "Filter", "Projection"}

GraphTablesOf(g) == {i \in DOMAIN g : g[i].k \in TableKinds}

GraphValuesOf(g) == DOMAIN g \ GraphTablesOf(g)

\* The state of a traversal: memo is the set of keys of the lift_memo dict of
\* the simplifier at work, work[i] the number of times the rewrite of node i
\* has been computed.
Worked(st, id) == [st EXCEPT !.work[id] = @ + 1]

RECURSIVE GraphBaseTable(_, _)
GraphBaseTable(g, id) ==
    IF g[id].k = "Filter" THEN GraphBaseTable(g, g[id].table) ELSE id

RECURSIVE MemoLift(_, _, _)
RECURSIVE MemoGetResult(_, _, _)
RECURSIVE MemoLiftAll(_, _, _)

\* _sub: ExprSimplifier(expr, lift_memo=self.lift_memo).get_result().  The
\* constructor keeps `lift_memo or {}`: an empty dict is false, so a simplifier
\* made while the memo is still empty gets a dict of its own, and what it
\* records is not seen by its maker.
_sub(g, id, st) ==
    LET r == MemoGetResult(g, id, st) IN
    IF st.memo = {} THEN [r EXCEPT !.memo = {}] ELSE r

\* lift: the memo is asked first; a value expression returns from _sub
\* without being recorded; a Filter is recorded after its table was lifted; any
\* other table is returned as it is.  The graphs built here hold no Join.
MemoLift(g, id, st) ==
    IF id \in st.memo THEN st
    ELSE CASE g[id].k \notin TableKinds -> _sub(g, id, st)
           [] g[id].k = "Filter" ->
                 LET r == MemoLift(g, g[id].table, Worked(st, id))
                 IN [r EXCEPT !.memo = @ \cup {id}]
           [] OTHER -> st

\* self.lift of each of a list of nodes in turn.
MemoLiftAll(g, ids, st) ==
    IF ids = <<>> THEN st
    ELSE MemoLiftAll(g, Tail(ids), MemoLift(g, Head(ids), st))

\* The selections of projection p that get_result lifts for a column named
\* "a": a table expression holding the name, or a column of that name; for
\* the latter the table of the column is lifted.
LiftedForColumn(g, p) ==
    [i \in DOMAIN g[p].args |->
        LET val == g[p].args[i] IN
        IF g[val].k \in TableKinds THEN val ELSE g[val].table]

\* get_result of the expression of node id.
MemoGetResult(g, id, st) ==
    LET n == g[id]
        s1 == Worked(st, id)
    IN IF n.k = "TableColumn"
       THEN LET root == GraphBaseTable(g, n.table) IN
            IF g[root].k = "Projection"
            THEN MemoLiftAll(g, LiftedForColumn(g, root), s1)
            ELSE MemoLift(g, n.table, s1)
       ELSE MemoLiftAll(g, n.args, s1)

NoWork(g) == [memo |-> {}, work |-> [i \in DOMAIN g |-> 0]]

\* substitute_parents(expr) with no memo given.
Traversal(g, id) == MemoGetResult(g, id, NoWork(g))

\* The nodes reachable from node id.
RECURSIVE GraphNodes(_, _)
GraphNodes(g, id) ==
    {id} \cup (IF g[id].table = 0 THEN {} ELSE GraphNodes(g, g[id].table))
         \cup UNION {GraphNodes(g, g[id].args[i]) : i \in DOMAIN g[id].args}

Untraversed(g) == [op |-> "None", root |-> 0, st |-> NoWork(g)]

\* table.a for one of the tables.
NewColumn ==
    /\ Len(heap) < MaxGraphNodes
    /\ \E t \in GraphTablesOf(heap) :
          heap' = Append(heap, GraphNode("TableColumn", t, <<>>))
    /\ last' = Untraversed(heap')
    /\ UNCHANGED asked

\* x + y or x * y for two expressions already made, which may be one object.
NewBinary ==
    /\ Len(heap) < MaxGraphNodes
    /\ \E k \in {"Add", "Multiply"} :
         \E x \in GraphValuesOf(heap) : \E y \in GraphValuesOf(heap) :
            heap' = Append(heap, GraphNode(k, 0, <<x, y>>))
    /\ last' = Untraversed(heap')
    /\ UNCHANGED asked

Substitute ==
    /\ last.op = "None"
    /\ \E e \in GraphValuesOf(heap) :
          last' = [op |-> "substitute_parents", root |-> e,
                   st |-> Traversal(heap, e)]
    /\ UNCHANGED <<heap, asked>>

GraphInit ==
    /\ heap = GraphTables
    /\ last = Untraversed(GraphTables)
    /\ asked = <<>>

GraphNext ==
    \/ NewColumn
    \/ NewBinary
    \/ Substitute

GraphSpec == GraphInit /\ [][GraphNext]_vars

----------------------------------------------------------------------------
\* lineage: the generator that walks the dependencies of a column expression.
\* heap[i] is the list of expressions _get_args gives for node i, its
\* dependencies; an expression depends only on expressions made before it, so
\* a node's dependencies are nodes of higher index.

MaxLineageNodes == 4

ArgLists(S) ==
    {<<>>} \cup {<<a>> : a \in S} \cup {<<a, b>> : a \in S, b \in S}

RECURSIVE LineageGraphsFrom(_)
LineageGraphsFrom(i) ==
    IF i > MaxLineageNodes THEN {<<>>}
    ELSE {<<a>> \o rest : a \in ArgLists((i + 1)..MaxLineageNodes),
                          rest \in LineageGraphsFrom(i + 1)}

LineageGraphs == LineageGraphsFrom(1)

_get_args(g, node) == g[node]

Reversed(seq) == [i \in DOMAIN seq |-> seq[Len(seq) + 1 - i]]

\* Stack.get pops the right end of the deque, Queue.get the left end.
get_mutant(container, data) ==
    [item |-> Head(data), data |-> Tail(data)]

get(container, data) ==
    IF container = "Stack"
    THEN [item |-> data[Len(data)], data |-> SubSeq(data, 1, Len(data) - 1)]
    ELSE [item |-> Head(data), data |-> Tail(data)]

\* Stack.visitor is reversed, Queue.visitor the identity.
visitor(container, args) ==
    IF container = "Stack" THEN Reversed(args) ELSE args

extend(data, items) == data \o items

\* The loop of lineage from its head to the next yield: a node that was seen
\* is not yielded, and its dependencies are added all the same.  node = 0
\* when the container ran empty.
RECURSIVE UntilYield(_, _, _, _)
UntilYield(g, container, data, seen) ==
    IF data = <<>> THEN [data |-> data, seen |-> seen, node |-> 0]
    ELSE LET got == get(container, data) IN
         IF got.item \notin seen
         THEN [data |-> got.data, seen |-> seen \cup {got.item},
               node |-> got.item]
         ELSE UntilYield(g, container,
                         extend(got.data,
                                visitor(container, _get_args(g, got.item))),
                         seen)

NoLineage ==
    [container |-> "None", root |-> 0, data |-> <<>>, seen |-> {},
     out |-> <<>>, at |-> 0, done |-> FALSE]

\* lineage(expr, container): the generator is made; nothing runs yet.
Lineage ==
    /\ last.container = "None"
    /\ \E expr \in DOMAIN heap : \E container \in {"Stack", "Queue"} :
          last' = [NoLineage EXCEPT !.container = container, !.root = expr,
                                    !.data = <<expr>>]
    /\ UNCHANGED <<heap, asked>>

\* next(generator): the generator goes on from the yield it stopped at, adds
\* the dependencies of the node it had yielded, and runs to the next yield or
\* to its end.
NextNode ==
    /\ last.container # "None"
    /\ ~last.done
    /\ LET data == IF last.at = 0 THEN last.data
                   ELSE extend(last.data,
                               visitor(last.container,
                                       _get_args(heap, last.at)))
           r == UntilYield(heap, last.container, data, last.seen)
       IN last' = [last EXCEPT !.data = r.data, !.seen = r.seen,
                               !.at = r.node,
                               !.out = IF r.node = 0 THEN @
                                       ELSE Append(@, r.node),
                               !.done = (r.node = 0)]
    /\ UNCHANGED <<heap, asked>>

LineageInit ==
    /\ heap \in LineageGraphs
    /\ last = NoLineage
    /\ asked = <<>>

LineageNext ==
    \/ Lineage
    \/ NextNode

LineageSpec == LineageInit /\ [][LineageNext]_vars

----------------------------------------------------------------------------
\* Projections that name their columns, and the lifting of a column of such
\* a projection.

MaxRenameNew == 2

MaxRenameNodes == Len(BaseTables) + MaxRenameNew

NewNames == {"a", "b", "x"}

\* [t.a.name(n)] and [t.a.name(n), t.b.name(m)] for the columns of t.
NamedSelections(h, t) ==
    {<<name(c, n)>> : c \in ColumnsOf(h, t), n \in NewNames}
    \cup {<<name(get_column(h, t, 1), n), name(get_column(h, t, 2), m)>> :
             n \in NewNames, m \in NewNames}

ProjectNamed ==
    \E t \in {x \in DOMAIN heap : Len(SchemaOf(heap, x)) = 2} :
      \E sels \in NamedSelections(heap, t) :
        Apply("projection", t, 0, sels, projection(heap, t, sels),
              MaxRenameNodes)

FilterColumn ==
    \E t \in DOMAIN heap : \E c \in ColumnsOf(heap, t) :
        Apply("filter", t, 0, <<Greater(c)>>,
              filter(heap, t, <<Greater(c)>>), MaxRenameNodes)

\* substitute_parents(t.c) for a column of a table: last.exprs holds the
\* column and what it was rewritten to.  A run ends with it.
LiftColumn ==
    /\ last.out = "ok"
    /\ \E t \in DOMAIN heap : \E c \in ColumnsOf(heap, t) :
          last' = Record("substitute_parents", t, 0,
                         <<c, substitute_parents(heap, c)>>,
                         [out |-> "lifted", id |-> 0, log |-> <<>>])
    /\ UNCHANGED <<heap, asked>>

RenameNext ==
    \/ ProjectNamed
    \/ FilterColumn
    \/ LiftColumn

RenameSpec == Init /\ [][RenameNext]_vars

----------------------------------------------------------------------------
\* The MSSQL backend: begin() blocks on one session.  heap is the stack of
\* the blocks that are open, each with the local previous_datefirst of its
\* generator; asked is, for each open block, the DATEFIRST the session had
\* when the block was entered; last is the session and the last event.

MaxBlocks == 2

DateFirsts == 1..7

\* bind.execute('SELECT @@DATEFIRST').scalar()
SelectDatefirst_mutant(session) == 7

SelectDatefirst(session) == session.datefirst

\* bind.execute('SET DATEFIRST n')
SetDatefirst(session, n) == [session EXCEPT !.datefirst = n, !.issued = n]

Session(n) == [datefirst |-> n, issued |-> 0, op |-> "None", before |-> 0]

\* The code of begin() up to its yield.
Begin ==
    /\ Len(heap) < MaxBlocks
    /\ LET previous_datefirst == SelectDatefirst(last) IN
       /\ heap' = Append(heap, [previous_datefirst |-> previous_datefirst])
       /\ asked' = Append(asked, last.datefirst)
       /\ last' = [SetDatefirst(last, 1) EXCEPT !.op = "begin", !.before = 0]

\* A statement of the caller, inside a block or outside: SET DATEFIRST n.
CallerSets ==
    /\ last.op # "set"
    /\ \E n \in DateFirsts :
          last' = [SetDatefirst(last, n) EXCEPT !.op = "set", !.before = 0]
    /\ UNCHANGED <<heap, asked>>

\* The finally clause, run when the innermost block is left.
Leave(how) ==
    /\ heap # <<>>
    /\ LET frame == heap[Len(heap)] IN
       last' = [SetDatefirst(last, frame.previous_datefirst)
                   EXCEPT !.op = how, !.before = asked[Len(asked)]]
    /\ heap' = SubSeq(heap, 1, Len(heap) - 1)
    /\ asked' = SubSeq(asked, 1, Len(asked) - 1)

\* The block ends: the generator is resumed and runs its finally clause.
ExitNormally == Leave("exit")

\* The block raises: the exception is thrown into the generator at its yield,
\* the finally clause runs and the exception goes on.
ExitByException == Leave("raise")

DatefirstInit ==
    /\ heap = <<>>
    /\ asked = <<>>
    /\ \E n \in DateFirsts : last = Session(n)

DatefirstNext ==
    \/ Begin
    \/ CallerSets
    \/ ExitNormally
    \/ ExitByException

DatefirstSpec == DatefirstInit /\ [][DatefirstNext]_vars

----------------------------------------------------------------------------
\* The Trino backend: one call of _metadata, a generator.  heap is the rows
\* DESCRIBE OUTPUT returns, <<column name, type text>>; last is the generator:
\* where it stands, the row it comes to next, the statements it has executed
\* on the connection and the columns it has yielded.

MaxColumns == 3

TypeTexts == {"bigint", "varchar", "no_such_type"}

DescribeOutputs ==
    UNION {[1..n -> {<<"c", ty>> : ty \in TypeTexts}] : n \in 0..MaxColumns}

\* parse(type) of a type text: the type, or an exception for a text that is
\* no Trino type.
parse(type) == IF type = "no_such_type" THEN "raise" ELSE type

Generator(pc, row, stmts, out) ==
    [pc |-> pc, row |-> row, stmts |-> stmts, out |-> out]

\* The for loop from its head: a row whose type parses is yielded, one whose
\* type does not parse raises out of the generator and out of the with
\* block, and after the last row the statement is deallocated.
Loop(rows, gen) ==
    IF gen.row > Len(rows)
    THEN Generator("done", gen.row, Append(gen.stmts, "DEALLOCATE PREPARE"),
                   gen.out)
    ELSE IF parse(rows[gen.row][2]) = "raise"
         THEN Generator("raised", gen.row, gen.stmts, gen.out)
         ELSE Generator("yielded", gen.row + 1, gen.stmts,
                        Append(gen.out, <<rows[gen.row][1],
                                          parse(rows[gen.row][2])>>))

\* next(generator).  The first runs the body from its start: PREPARE, then
\* DESCRIBE OUTPUT, then the loop; the later ones go on after the yield.
NextColumn ==
    /\ last.pc \in {"created", "yielded"}
    /\ last' = IF last.pc = "created"
               THEN Loop(heap, [last EXCEPT !.stmts = <<"PREPARE",
                                                        "DESCRIBE OUTPUT">>])
               ELSE Loop(heap, last)
    /\ UNCHANGED <<heap, asked>>

\* The caller stops consuming: the generator is closed, or dropped and
\* collected.  GeneratorExit is raised at the yield and leaves the with block.
Close ==
    /\ last.pc \in {"created", "yielded"}
    /\ last' = [last EXCEPT !.pc = "closed"]
    /\ UNCHANGED <<heap, asked>>

MetadataInit ==
    /\ heap \in DescribeOutputs
    /\ last = Generator("created", 1, <<>>, <<>>)
    /\ asked = <<>>

MetadataNext ==
    \/ NextColumn
    \/ Close

MetadataSpec == MetadataInit /\ [][MetadataNext]_vars

----------------------------------------------------------------------------
\* Properties of the constructors and of the construction API.

FilterKinds == {"Filter", "FilterWithSchema"}

ValidatingCtors == {"Filter", "Projection"} \cup JoinKinds

RootSet(t) == SeqSet(root_tables(heap, t).roots)

ExprRootSet(e) == SeqSet(expr_roots(heap, e).roots)

\* The roots a constructor call allows: those of its input, or of both sides.
AllowedRoots(c) ==
    RootSet(c.table) \cup (IF c.right = 0 THEN {} ELSE RootSet(c.right))

IsForeign(c, e) == ~(ExprRootSet(e) \subseteq AllowedRoots(c))

HasForeign(c) == \E j \in DOMAIN c.exprs : IsForeign(c, c.exprs[j])

\* The first expression of a Projection call that is foreign or has no name.
FirstOffender(c) ==
    LET bad == {j \in DOMAIN c.exprs :
                   IsForeign(c, c.exprs[j]) \/ get_name(c.exprs[j]) = NoName}
    IN IF bad = {} THEN 0 ELSE CHOOSE j \in bad : \A m \in bad : j <= m

CallNames(c) == [j \in DOMAIN c.exprs |-> get_name(c.exprs[j])]

Probes(t) ==
    LET cols == ColumnsFor(heap, t) IN
    cols \cup {Greater(c) : c \in cols}
    \cup {Equals(c, get_column(heap, Foreign(heap, t), 1)) : c \in cols}
    \cup {Lit(0)}

\* C2: ExprValidator.validate(expr) is true exactly when every root table of
\* expr is, by object identity, one of the validator's roots; an expression
\* without root tables is valid, and a root that is only structurally equal
\* to one of the validator's roots does not count.  Checked for the validator
\* of the table the last call was made on.
C2_ValidateIffIdentity ==
    last.t # 0 =>
        LET roots == root_tables(heap, last.t).roots IN
        \A e \in Probes(last.t) :
            LET v == validate(heap, roots, e)
                er == ExprRootSet(e)
            IN /\ v = "True" <=> er \subseteq SeqSet(roots)
               /\ er = {} => v = "True"
               /\ (\E r \in er : \A x \in SeqSet(roots) : x # r) => v = "False"

\* A Filter over a table was refused a predicate on another table object of
\* the same schema.
C2_Witness ==
    \E i \in DOMAIN last.log :
        LET c == last.log[i] IN
        /\ c.ctor = "Filter" /\ c.out = "RelationError"
        /\ \E r \in ExprRootSet(c.exprs[1]) : \E x \in RootSet(c.table) :
              x # r /\ heap[x] = heap[r]
        /\ validate(heap, root_tables(heap, c.table).roots, c.exprs[1]) = "False"

\* A Filter is never built directly on a Filter by the API, and a filter call
\* with predicates whose roots are roots of the table succeeds.
FilterCallsFuse ==
    /\ \A id \in DOMAIN heap :
          heap[id].k \in FilterKinds => heap[heap[id].table].k \notin FilterKinds
    /\ ( /\ last.op = "filter"
         /\ heap[last.t].k \notin {"Projection", "Aggregation"}
         /\ \A j \in DOMAIN last.exprs :
               ExprRootSet(last.exprs[j]) \subseteq RootSet(last.t) )
          => last.out = "ok" /\ heap[last.id].k \in FilterKinds

C4_NoPushdownOfOwnPredicates ==
    ( /\ last.op = "filter"
      /\ heap[last.t].k \in {"Projection", "Aggregation"}
      /\ \E j \in DOMAIN last.exprs :
            last.t \in ExprRootSet(substitute_parents(heap, last.exprs[j])) )
    => /\ last.out = "ok"
       /\ heap[last.id].k \in FilterKinds
       /\ heap[last.id].table = last.t

\* C5 as the specification states it: t.projection([a, b]).projection([a])
\* is one Projection over t whose selections are exactly [a].
C5_ProjectionFusion ==
    ( /\ last.op = "projection"
      /\ heap[last.t].k = "Projection"
      /\ heap[heap[last.t].table].k = "UnboundTable"
      /\ heap[last.t].exprs = << get_column(heap, heap[last.t].table, 1),
                                 get_column(heap, heap[last.t].table, 2) >>
      /\ last.exprs = << get_column(heap, last.t, 1) >> )
    => /\ last.out = "ok"
       /\ heap[last.id].k = "Projection"
       /\ heap[last.id].table = heap[last.t].table
       /\ heap[last.id].exprs = << get_column(heap, heap[last.t].table, 1) >>

\* C6 as the specification states it: projecting on a Projection never raises
\* because of the fusion attempt: when the call raises, the Projection over
\* the existing one, built without fusion, raises as well.
C6_FusionNeverRaises ==
    ( /\ last.op = "projection"
      /\ heap[last.t].k = "Projection"
      /\ last.out # "ok" )
    => Projection(heap, last.t, SubstituteAll(heap, last.exprs)).out # "ok"

IsViewOf(v, t) == heap[v].k = "SelfReference" /\ heap[v].table = t

\* C7 as the specification states it: joining t with t.view() on a predicate
\* that compares a column of t with the same column of the view does not
\* raise, neither when the join is built nor when its schema is computed.
C7_SelfJoinThroughView ==
    /\ ( /\ last.op \in JoinKinds
         /\ IsViewOf(last.right, last.t)
         /\ last.exprs = << Equals(get_column(heap, last.t, 1),
                                   get_column(heap, last.right, 1)) >> )
       => last.out = "ok"
    /\ ( /\ last.op = "materialize"
         /\ heap[last.t].k \in JoinKinds
         /\ IsViewOf(heap[last.t].right, heap[last.t].table) )
       => last.out = "ok"

\* C8: the root tables of t.view() are the one SelfReference node of the
\* view, which is no root table of t; the view has the schema of t; two views
\* of one table have distinct roots; view succeeds on a table with a schema.
C8_ViewIsOwnRoot ==
    /\ \A v \in DOMAIN heap :
          heap[v].k = "SelfReference" =>
              /\ root_tables(heap, v) = Roots(<<v>>)
              /\ v \notin RootSet(heap[v].table)
              /\ RootSet(v) \cap RootSet(heap[v].table) = {}
              /\ heap[v].schema = heap[heap[v].table].schema
              /\ \A w \in DOMAIN heap :
                    (w # v /\ IsViewOf(w, heap[v].table))
                       => RootSet(w) \cap RootSet(v) = {}
    /\ (last.op = "view" /\ _is_materialized(heap, last.t))
          => last.out = "ok" /\ IsViewOf(last.id, last.t)

\* view was called twice on one table.
C8_Witness ==
    \E v \in DOMAIN heap : \E w \in DOMAIN heap :
        /\ v # w
        /\ IsViewOf(v, heap[v].table)
        /\ IsViewOf(w, heap[v].table)
        /\ last.op = "view" /\ last.id = w

SharedNames(l, r) == Overlap(heap[l].schema, heap[r].schema)

DiffersInOneArgument(x, y) ==
    LET ax == TableArgs(heap, x)
        ay == TableArgs(heap, y)
    IN /\ ax[1] = ay[1]
       /\ Cardinality({i \in DOMAIN ax[2] : ax[2][i] # ay[2][i]}) = 1

\* C10 as the specification states it: two nodes that differ in exactly one
\* argument (a literal's value, a child node, the contents or the length of a
\* list) are not equal under equals.
C10_EqualsTellsOneDifference ==
    \A x \in DOMAIN heap : \A y \in DOMAIN heap :
        DiffersInOneArgument(x, y) => ~equals(heap, x, y)

----------------------------------------------------------------------------
\* Properties of the types of arithmetic expressions.

ArithmeticOps == {"Add", "Subtract", "Multiply"}

Contains(t, v) == Between(_int_bounds(t)[1], v, _int_bounds(t)[2])

\* The narrowest integer type that holds every value of the set, int64 when
\* a value is outside the 64-bit range.
NarrowestHolding(values) ==
    IF \E v \in values : ~Contains("int64", v) THEN "int64"
    ELSE CHOOSE t \in IntTypes :
            /\ \A v \in values : Contains(t, v)
            /\ \A u \in IntTypes :
                  (\A v \in values : Contains(u, v)) => _nbytes(t) <= _nbytes(u)

\* The results of the last operation with the non-literal operand at the
\* bounds of its type and the literal on the side it was written on.
ResultsAtBounds ==
    IF last.left.lit
    THEN {operator(last.op, last.left.value, _int_bounds(last.right.type)[i]) :
             i \in 1..2}
    ELSE {operator(last.op, _int_bounds(last.left.type)[i], last.right.value) :
             i \in 1..2}

NonLiteralType == IF last.left.lit THEN last.right.type ELSE last.left.type

\* C13 as the specification states it: for Add, Subtract or Multiply of an
\* integer literal and a non-literal integer operand of type T, on either
\* side, the result type is an integer type at least as wide as T that holds
\* every result over T's bounds, int64 when a result leaves the 64-bit range.
C13_OneLiteralPromotion ==
    ( /\ last.op \in ArithmeticOps
      /\ last.left.lit # last.right.lit
      /\ {last.left.type, last.right.type} \subseteq IntTypes )
    => /\ last.out \in IntTypes
       /\ _nbytes(last.out) >= _nbytes(NonLiteralType)
       /\ IF \A r \in ResultsAtBounds : Contains("int64", r)
          THEN \A r \in ResultsAtBounds : Contains(last.out, r)
          ELSE last.out = "int64"

\* The results of the last operation at the four corners of the bounds of
\* the types of its operands.
Corners ==
    {operator(last.op, _int_bounds(last.left.type)[i],
              _int_bounds(last.right.type)[j]) : i \in 1..2, j \in 1..2}

\* C14: for Add, Subtract or Multiply of two non-literal integer operands the
\* result type is the narrowest of int8, int16, int32, int64 that holds the
\* result at all four corners of the operands' bounds; it is int64, and
\* nothing is raised, when a corner is outside the 64-bit range.
C14_BoundsPromotion ==
    ( /\ last.op \in ArithmeticOps
      /\ ~last.left.lit /\ ~last.right.lit
      /\ {last.left.type, last.right.type} \subseteq IntTypes )
    => last.out = NarrowestHolding(Corners)

\* Two int64 columns were multiplied: a corner is outside the 64-bit range.
C14_Witness ==
    /\ last.op = "Multiply"
    /\ ~last.left.lit /\ ~last.right.lit
    /\ last.left.type = "int64" /\ last.right.type = "int64"
    /\ \E v \in Corners : ~Contains("int64", v)
    /\ last.out = "int64"

\* The value of the last literal, or of the last operation on two literals.
LiteralValue ==
    IF last.op = "Literal" THEN last.left.value
    ELSE operator(last.op, last.left.value, last.right.value)

\* C15: an integer literal value, written directly or the exact result of
\* Add, Subtract or Multiply on two integer literals, is typed int8 in
\* [-128, 127], else int16 in [-32768, 32767], else int32 in the 32-bit
\* range, else int64; outside the signed 64-bit range OverflowError is
\* raised.
C15_LiteralClass ==
    ( \/ last.op = "Literal"
      \/ last.op \in ArithmeticOps /\ last.left.lit /\ last.right.lit )
    => last.out = ( IF Contains("int8", LiteralValue) THEN "int8"
                    ELSE IF Contains("int16", LiteralValue) THEN "int16"
                    ELSE IF Contains("int32", LiteralValue) THEN "int32"
                    ELSE IF Contains("int64", LiteralValue) THEN "int64"
                    ELSE "OverflowError" )

\* Two literals were added, the sum is 2^63 and OverflowError was raised.
C15_Witness ==
    /\ last.op = "Add" /\ last.left.lit /\ last.right.lit
    /\ LiteralValue = TwoTo63
    /\ last.out = "OverflowError"

\* C16 as the specification states it: a Power whose exponent is a negative
\* integer literal has the type double for a base of any integer type, of
\* type float and of type double.
C16_NegativeExponentIsDouble ==
    ( /\ last.op = "Power"
      /\ last.right.lit /\ last.right.value.neg
      /\ last.left.type \in IntTypes \cup FloatingTypes )
    => last.out = "double"

\* C19 as the specification states it: exp, log, log2 and log10 of a boolean
\* operand or of an operand that is not numeric raise TypeError.
C19_RealFunctionsRefuseBoolean ==
    ( /\ last.op \in {"Exp", "Log", "Log2", "Log10"}
      /\ last.left.type \notin IntTypes \cup FloatingTypes )
    => last.out = "TypeError"

----------------------------------------------------------------------------
\* Properties of sorting and aggregating.

\* A sort key of the call is a column of a table outside the roots of the
\* sorted table.
KeyExpr(key) == IF key.k = "SortKey" THEN key.args[1] ELSE key

HasForeignKey(c) ==
    \E j \in DOMAIN c.exprs :
        /\ KeyExpr(c.exprs[j]).k = "TableColumn"
        /\ ~(ExprRootSet(KeyExpr(c.exprs[j])) \subseteq RootSet(c.table))

\* C17: constructing a SortBy with a sort key that references a table outside
\* the root tables of the sorted table raises RelationError.
C17_SortByRefusesForeignKey ==
    \A i \in DOMAIN last.log :
        LET c == last.log[i] IN
        (c.ctor = "SortBy" /\ HasForeignKey(c)) => c.out = "RelationError"

\* A scalar expression that contains a reduction.
IsReduction(e) == IsScalar(e) /\ has_reduction(e)

OverInput(c) ==
    \A j \in DOMAIN c.exprs : ExprRootSet(c.exprs[j]) \subseteq RootSet(c.table)

\* The first half of C18: an Aggregation raises TypeError when one of its
\* metrics is not a scalar expression containing a reduction.
C18_NonReductionIsTypeError ==
    \A i \in DOMAIN last.log :
        LET c == last.log[i] IN
        (c.ctor = "Aggregation" /\ \E j \in DOMAIN c.exprs : ~IsReduction(c.exprs[j]))
            => c.out = "TypeError"

\* C18: constructing an Aggregation raises TypeError when one of its metrics
\* is not a scalar expression containing a reduction, and succeeds when every
\* metric is a scalar expression built on a reduction over the input table.
C18_MetricsAreReductions ==
    \A i \in DOMAIN last.log :
        LET c == last.log[i] IN
        c.ctor = "Aggregation" =>
            IF \E j \in DOMAIN c.exprs : ~IsReduction(c.exprs[j])
            THEN c.out = "TypeError"
            ELSE OverInput(c) => c.out = "ok"

----------------------------------------------------------------------------
\* Properties of the SQL translator.

\* The words of inner appear in outer, in order and next to each other.
Within(inner, outer) ==
    \E i \in 0..(Len(outer) - Len(inner)) :
        SubSeq(outer, i + 1, i + Len(inner)) = inner

\* Every operand of the expression that is a binary infix operation or a
\* negation appears in parentheses in the output.
OperandsWrapped(e, out) ==
    \A i \in DOMAIN e.args :
        _needs_parens(e.args[i])
            => Within(_parenthesize(translate(e.args[i])), out)

\* C20: in the translation of a binary infix operation or of a negation,
\* numeric minus or boolean NOT, every operand that is itself a binary infix
\* operation or a negation appears wrapped in parentheses.
C20_OperandsInParentheses ==
    _needs_parens(last.expr) => OperandsWrapped(last.expr, last.out)

\* The same for every operation but the boolean NOT.
C20_InfixAndMinusOperandsInParentheses ==
    (_needs_parens(last.expr)
        /\ ~(last.expr.k = "Negate" /\ last.expr.cls = "boolean"))
        => OperandsWrapped(last.expr, last.out)

\* The output has no parenthesis.
NoParentheses(out) == \A i \in DOMAIN out : out[i] \notin {"(", ")"}

\* x op y op z built left-associatively from three columns with one operator.
IsLeftChain(e) ==
    /\ e.k \in ArithmeticKinds
    /\ e.args[1].k = e.k
    /\ e.args[2].k = "TableColumn"
    /\ e.args[1].args[1].k = "TableColumn"
    /\ e.args[1].args[2].k = "TableColumn"

\* C21: a + b + c, built left-associatively from three columns with the same
\* operator, is translated without parentheses.
C21_LeftChainWithoutParentheses ==
    IsLeftChain(last.expr) => NoParentheses(last.out)

----------------------------------------------------------------------------
\* Properties of the translation of literals.

\* The number a text of decimal digits with an optional sign denotes, or the
\* empty set when the text is no such text.
DigitOf(c) ==
    IF c \in {ToString(d) : d \in 0..9}
    THEN CHOOSE d \in 0..9 : ToString(d) = c ELSE -1

RECURSIVE NaturalOf(_)
NaturalOf(text) ==
    IF Len(text) = 1 THEN DigitOf(text[1])
    ELSE 10 * NaturalOf(SubSeq(text, 1, Len(text) - 1))
         + DigitOf(text[Len(text)])

IsDecimal(text) ==
    LET digits == IF text # <<>> /\ Head(text) = "-" THEN Tail(text) ELSE text
    IN digits # <<>> /\ \A i \in DOMAIN digits : DigitOf(digits[i]) >= 0

DecimalOf(text) ==
    IF Head(text) = "-" THEN 0 - NaturalOf(Tail(text)) ELSE NaturalOf(text)

\* The string a quoted literal denotes where a backslash escapes the
\* character after it: the characters read from position i on, or "open"
\* when the text ends before the closing quote, or "more" when text follows
\* the closing quote.
RECURSIVE Unquote(_, _)
Unquote(text, i) ==
    IF i > Len(text) THEN [end |-> "open", str |-> <<>>]
    ELSE IF text[i] = "'"
         THEN [end |-> IF i = Len(text) THEN "closed" ELSE "more", str |-> <<>>]
    ELSE IF text[i] = "\\"
         THEN IF i + 1 > Len(text) THEN [end |-> "open", str |-> <<>>]
              ELSE LET rest == Unquote(text, i + 2)
                   IN [rest EXCEPT !.str = <<text[i + 1]>> \o rest.str]
    ELSE LET rest == Unquote(text, i + 1)
         IN [rest EXCEPT !.str = <<text[i]>> \o rest.str]

\* The text is one well-formed quoted literal that denotes str.
Denotes(text, str) ==
    /\ text # <<>> /\ text[1] = "'"
    /\ Unquote(text, 2) = [end |-> "closed", str |-> str]

\* C22: a boolean literal is translated to TRUE or FALSE, an integer literal
\* to its decimal text, and a string literal to one well-formed quoted
\* literal that denotes the string.
C22_LiteralsByType ==
    /\ last.op = "bool" =>
          last.out = (IF last.value.bool THEN <<"T", "R", "U", "E">>
                      ELSE <<"F", "A", "L", "S", "E">>)
    /\ last.op \in {"int", "long"} =>
          IsDecimal(last.out) /\ DecimalOf(last.out) = last.value.int
    /\ last.op = "str" => Denotes(last.out, last.value.str)

\* The same for booleans, for integers of the Python type int and for strings
\* without a backslash.
C22_LiteralsByTypeButLongAndBackslash ==
    /\ last.op = "bool" =>
          last.out = (IF last.value.bool THEN <<"T", "R", "U", "E">>
                      ELSE <<"F", "A", "L", "S", "E">>)
    /\ last.op = "int" =>
          IsDecimal(last.out) /\ DecimalOf(last.out) = last.value.int
    /\ (last.op = "str" /\ \A i \in DOMAIN last.value.str : last.value.str[i] # "\\")
          => Denotes(last.out, last.value.str)

----------------------------------------------------------------------------
\* Properties of Schema.

\* C23: for any two valid schemas, also two that share a column name,
\* append returns the schema of the names and types of the first followed by
\* those of the second.
C23_AppendConcatenates ==
    last.op = "append" =>
        last.out = [err |-> "", schema |-> last.left \o last.right]

\* The same for two schemas that share no column name.
C23_AppendConcatenatesDisjoint ==
    (last.op = "append" /\ NameSet(last.left) \cap NameSet(last.right) = {})
        => last.out = [err |-> "", schema |-> last.left \o last.right]

----------------------------------------------------------------------------
\* Properties of the root tables.

\* C24: for every relation built, computing its root tables completes without
\* error and returns a list of table nodes.
C24_RootsAreComputable ==
    \A t \in DOMAIN heap :
        /\ root_tables(heap, t).err = ""
        /\ SeqSet(root_tables(heap, t).roots) \subseteq DOMAIN heap

\* The same for every relation but the materialized joins.
C24_RootsAreComputableButMaterializedJoin ==
    \A t \in DOMAIN heap :
        heap[t].k # "MaterializedJoin" =>
            /\ root_tables(heap, t).err = ""
            /\ SeqSet(root_tables(heap, t).roots) \subseteq DOMAIN heap

\* C25: computing root tables is a fixed point: for every relation and every
\* expression of the last call whose root tables are computed, each root r
\* has exactly the root tables [r].
C25_RootsAreFixedPoint ==
    /\ \A t \in DOMAIN heap :
          root_tables(heap, t).err = "" =>
              \A r \in SeqSet(root_tables(heap, t).roots) :
                  root_tables(heap, r) = Roots(<<r>>)
    /\ \A i \in DOMAIN last.exprs :
          expr_roots(heap, last.exprs[i]).err = "" =>
              \A r \in SeqSet(expr_roots(heap, last.exprs[i]).roots) :
                  root_tables(heap, r) = Roots(<<r>>)

\* A join with two roots, one of them a view or an aggregation and not a
\* base table.
C25_RootsOfDerivedTables ==
    \E t \in DOMAIN heap :
        /\ heap[t].k \in JoinKinds
        /\ root_tables(heap, t).err = ""
        /\ Len(root_tables(heap, t).roots) = 2
        /\ \E r \in SeqSet(root_tables(heap, t).roots) :
              heap[r].k \in {"Aggregation", "SelfReference"}

----------------------------------------------------------------------------
\* Properties of the traversal of ExprSimplifier.

\* C26: in one substitute_parents traversal the rewrite of each node is
\* computed at most once, so the rewrites are no more than the distinct nodes
\* of the expression graph.
C26_EachNodeRewrittenOnce ==
    last.op = "substitute_parents" =>
        \A i \in DOMAIN heap : last.st.work[i] <= 1

\* The same for an expression in which no node has two parents.
C26_TreeNodesRewrittenOnce ==
    (/\ last.op = "substitute_parents"
     /\ \A i \in GraphNodes(heap, last.root) :
          Cardinality({p \in GraphNodes(heap, last.root) :
                         \/ heap[p].table = i
                         \/ \E j \in DOMAIN heap[p].args : heap[p].args[j] = i})
             <= 1
     /\ \A p \in GraphNodes(heap, last.root) :
          \/ Len(heap[p].args) < 2
          \/ heap[p].args[1] # heap[p].args[2])
    => \A i \in DOMAIN heap : last.st.work[i] <= 1

----------------------------------------------------------------------------
\* Properties of lineage.

\* The nodes below node n in depth-first pre-order, after those of `visited`.
RECURSIVE PreOrder(_, _, _)
RECURSIVE PreOrderAll(_, _, _)
PreOrder(g, n, visited) ==
    IF n \in SeqSet(visited) THEN visited
    ELSE PreOrderAll(g, g[n], Append(visited, n))

PreOrderAll(g, ns, visited) ==
    IF ns = <<>> THEN visited
    ELSE PreOrderAll(g, Tail(ns), PreOrder(g, Head(ns), visited))

\* The nodes at most d steps below node n.
RECURSIVE NodesWithin(_, _, _)
NodesWithin(g, n, d) ==
    IF d = 0 THEN {n}
    ELSE {n} \cup UNION {NodesWithin(g, g[n][i], d - 1) : i \in DOMAIN g[n]}

\* The level of node m under node n: the length of the shortest path.
Level(g, n, m) ==
    CHOOSE d \in 0..Len(g) :
        /\ m \in NodesWithin(g, n, d)
        /\ \A c \in 0..(d - 1) : m \notin NodesWithin(g, n, c)

IsPrefix(s, t) == Len(s) <= Len(t) /\ s = SubSeq(t, 1, Len(s))

----------------------------------------------------------------------------
\* Properties of the lifting of columns.

\* The selection of the projection below table t from which column n is
\* lifted: the last that matches; 0 when nothing is lifted.
LiftedFrom(t, n) ==
    LET root == _base_table(heap, t) IN
    IF root = 0 \/ heap[root].k # "Projection" THEN 0
    ELSE LET src == LiftSources(heap, root, n) IN
         IF src = {} THEN 0 ELSE CHOOSE j \in src : \A m \in src : m <= j

\* The column `after` of the table below denotes what selection val of the
\* projection selects: a column of a selected table keeps its name, a
\* selected column is the column of its own name in its own table.
SameValue(val, after) ==
    /\ after.k = "TableColumn"
    /\ after.t = lift(heap, val.t)
    /\ after.name \in NameSet(SchemaOf(heap, after.t))
    /\ val.k = "TableColumn" => after.name = val.name

LiftedCase ==
    /\ last.op = "substitute_parents"
    /\ LiftedFrom(last.exprs[1].t, last.exprs[1].name) # 0

LiftedSelection ==
    heap[_base_table(heap, last.exprs[1].t)]
        .exprs[LiftedFrom(last.exprs[1].t, last.exprs[1].name)]

\* C28: a column lifted through a Projection names a column of the schema of
\* the table it now references and denotes the same value as before, whatever
\* name the projection gave the column.
C28_LiftedColumnExists ==
    LiftedCase => SameValue(LiftedSelection, last.exprs[2])

\* The same for a projection that selected the column under its own name.
C28_LiftedColumnExistsUnlessRenamed ==
    (LiftedCase /\ get_name(LiftedSelection) = LiftedSelection.name)
        => SameValue(LiftedSelection, last.exprs[2])

----------------------------------------------------------------------------
\* Properties of the MSSQL backend.

\* C29: begin() leaves DATEFIRST at 1 when the block starts; when the block
\* is left, normally or by an exception, SET DATEFIRST is issued with the
\* value the session had at entry, which is the value of the session after.
C29_DatefirstRestored ==
    /\ last.op = "begin" => last.datefirst = 1 /\ last.issued = 1
    /\ last.op \in {"exit", "raise"} =>
          /\ last.issued = last.before
          /\ last.datefirst = last.before

\* A block entered with DATEFIRST 7 and left by an exception, after which no
\* block is open.
C29_RestoredAfterException ==
    /\ last.op = "raise"
    /\ last.before = 7
    /\ last.datefirst = 7
    /\ heap = <<>>

----------------------------------------------------------------------------
\* Properties of the Trino backend.

Executed(stmt) == \E i \in DOMAIN last.stmts : last.stmts[i] = stmt

\* C30: a _metadata call that executed PREPARE and has ended, by exhaustion,
\* by the caller closing it early or by a type that does not parse, has
\* executed DEALLOCATE PREPARE.
C30_PreparedIsDeallocated ==
    (last.pc \in {"done", "closed", "raised"} /\ Executed("PREPARE"))
        => Executed("DEALLOCATE PREPARE")

\* The same for a call whose columns were all consumed.
C30_PreparedIsDeallocatedWhenExhausted ==
    (last.pc = "done" /\ Executed("PREPARE"))
        => Executed("DEALLOCATE PREPARE")

====
